---- MODULE Spec2Model ----
(***************************************************************************)
(* A model of package github.com/johnsiilver/http: the cookie codec of     *)
(* cookie.go (readCookies, parseCookieValue, the validators) and the       *)
(* exported wrappers around net/http.                                      *)
(*                                                                         *)
(* Strings are sequences of bytes (numbers 0..255).  Init draws the        *)
(* function called and its arguments; a codec function returns in one     *)
(* step, a wrapper runs its body call by call on the goroutine's stack.   *)
(***************************************************************************)
EXTENDS Integers, Sequences, FiniteSets, TLC

VARIABLES
    op,        \* the function the caller invoked
    args,      \* its arguments (a record)
    status,    \* "called", "returned" or "fatal" (the process died)
    ret,       \* the value returned (a record), NoRet before the return
    stack,     \* the goroutine's call stack, innermost frame last
    libCalls,  \* the calls made into the wrapped library net/http, in order
    logged,    \* the lines written to the process-wide standard logger
    heap       \* the byte buffers allocated by make, by address (1, 2, ...)

vars == <<op, args, status, ret, stack, libCalls, logged, heap>>

----------------------------------------------------------------------------
(* Bytes and strings *)

SP   == 32    \* ' '
DQ   == 34    \* '"'
SEMI == 59    \* ';'
EQ   == 61    \* '='
BSL  == 92    \* '\\'
LA   == 97    \* 'a'
DEL  == 127   \* 0x7f

\* Longest Cookie header line drawn as an input.
MaxLen == 5
\* Longest line of a header that has two Cookie lines.
MaxShortLen == 2
\* Longest raw value handed to parseCookieValue on its own.
MaxRawLen == 4

\* The bytes input strings are made of: OWS, the quote, both separators and
\* one token character.
Alphabet == {SP, DQ, SEMI, EQ, LA}

Strs(n) == UNION {[1..k -> Alphabet] : k \in 0..n}

\* s[i:] and s[:i] of Go, i counted from 0.
From(s, i) == SubSeq(s, i + 1, Len(s))
Upto(s, i) == SubSeq(s, 1, i)

\* strings.IndexByte: index (from 0) of the first b in s, -1 if there is none.
IndexByte(s, b) ==
    IF \E i \in 1..Len(s) : s[i] = b
    THEN (CHOOSE i \in 1..Len(s) : s[i] = b /\ \A j \in 1..(i - 1) : s[j] /= b) - 1
    ELSE -1

\* strings.Cut(s, sep) for a one-byte sep.
Cut(s, sep) ==
    LET i == IndexByte(s, sep)
    IN  IF i >= 0
        THEN [before |-> Upto(s, i), after |-> From(s, i + 1), found |-> TRUE]
        ELSE [before |-> s, after |-> <<>>, found |-> FALSE]

\* textproto.TrimString: drops leading and trailing ASCII space, \t, \n, \r.
isASCIISpace(b) == b \in {32, 9, 10, 13}

RECURSIVE TrimLeft(_)
TrimLeft(s) ==
    IF Len(s) > 0 /\ isASCIISpace(s[1]) THEN TrimLeft(Tail(s)) ELSE s

RECURSIVE TrimRight(_)
TrimRight(s) ==
    IF Len(s) > 0 /\ isASCIISpace(s[Len(s)])
    THEN TrimRight(Upto(s, Len(s) - 1)) ELSE s

TrimString(s) == TrimRight(TrimLeft(s))

----------------------------------------------------------------------------
(* cookie.go *)

\* The separators of the token grammar: ( ) < > @ , ; : \ " / [ ] ? = { } SP HT.
Separators ==
    {40, 41, 60, 62, 64, 44, 59, 58, 92, 34, 47, 91, 93, 63, 61, 123, 125, 32, 9}

\* isNotToken: r is no token character (a control, a separator, or not ASCII).
isNotToken(r) == ~(r > 32 /\ r < 127 /\ r \notin Separators)

isCookieNameValid_AllowsEmpty(raw) ==
    \A i \in 1..Len(raw) : ~isNotToken(raw[i])

isCookieNameValid_FirstByteOnly(raw) ==
    IF raw = <<>> THEN FALSE
    ELSE ~isNotToken(raw[1])

\* strings.IndexFunc(raw, isNotToken) < 0 on a non-empty raw.
isCookieNameValid(raw) ==
    IF raw = <<>> THEN FALSE
    ELSE ~(\E i \in 1..Len(raw) : isNotToken(raw[i]))

validCookieValueByte_NoQuoteCheck(b) ==
    32 <= b /\ b < DEL /\ b /= SEMI /\ b /= BSL

validCookieValueByte(b) ==
    32 <= b /\ b < DEL /\ b /= DQ /\ b /= SEMI /\ b /= BSL

parseCookieValue_FirstQuoteOnly(raw, allowDoubleQuote) ==
    LET strip  == allowDoubleQuote /\ Len(raw) > 1 /\ raw[1] = DQ
        inner  == IF strip THEN SubSeq(raw, 2, Len(raw) - 1) ELSE raw
    IN  IF \E i \in 1..Len(inner) : ~validCookieValueByte(inner[i])
        THEN [value |-> <<>>, quoted |-> strip, ok |-> FALSE]
        ELSE [value |-> inner, quoted |-> strip, ok |-> TRUE]

parseCookieValue(raw, allowDoubleQuote) ==
    LET strip  == allowDoubleQuote /\ Len(raw) > 1
                  /\ raw[1] = DQ /\ raw[Len(raw)] = DQ
        inner  == IF strip THEN SubSeq(raw, 2, Len(raw) - 1) ELSE raw
    IN  IF \E i \in 1..Len(inner) : ~validCookieValueByte(inner[i])
        THEN [value |-> <<>>, quoted |-> strip, ok |-> FALSE]
        ELSE [value |-> inner, quoted |-> strip, ok |-> TRUE]

\* &Cookie{Name: name, Value: val, Quoted: quoted}
Cookie(name, val, quoted) == [Name |-> name, Value |-> val, Quoted |-> quoted]

\* h[key] of a Header: the nil slice when the key is absent.
HeaderValues(h, key) == IF key \in DOMAIN h THEN h[key] ELSE <<>>

\* What a call hands back: a slice (nil or not) or a panic.
Slice(isNil, items) == [panic |-> FALSE, nil |-> isNil, cookies |-> items]
Panic == [panic |-> TRUE, nil |-> TRUE, cookies |-> <<>>]

\* s[i] of Go is in range.
IndexOK(s, i) == 0 <= i /\ i < Len(s)

RECURSIVE readLine_NoFilter(_, _, _)
readLine_NoFilter(line, filter, cookies) ==
    IF Len(line) = 0 THEN cookies
    ELSE
        LET c    == Cut(line, SEMI)
            part == TrimString(c.before)
            nv   == Cut(part, EQ)
            name == TrimString(nv.before)
            pv   == parseCookieValue(nv.after, TRUE)
        IN  IF part = <<>> \/ ~isCookieNameValid(name) \/ ~pv.ok
            THEN readLine_NoFilter(c.after, filter, cookies)
            ELSE readLine_NoFilter(c.after, filter,
                     Append(cookies, Cookie(name, pv.value, pv.quoted)))

RECURSIVE readLine_Prepend(_, _, _)
readLine_Prepend(line, filter, cookies) ==
    IF Len(line) = 0 THEN cookies
    ELSE
        LET c    == Cut(line, SEMI)
            part == TrimString(c.before)
            nv   == Cut(part, EQ)
            name == TrimString(nv.before)
            pv   == parseCookieValue(nv.after, TRUE)
        IN  IF \/ part = <<>>
               \/ ~isCookieNameValid(name)
               \/ (filter /= <<>> /\ filter /= name)
               \/ ~pv.ok
            THEN readLine_Prepend(c.after, filter, cookies)
            ELSE readLine_Prepend(c.after, filter,
                     <<Cookie(name, pv.value, pv.quoted)>> \o cookies)

RECURSIVE readLine_NeedsEqual(_, _, _)
readLine_NeedsEqual(line, filter, cookies) ==
    IF Len(line) = 0 THEN cookies
    ELSE
        LET c    == Cut(line, SEMI)
            part == TrimString(c.before)
            nv   == Cut(part, EQ)
            name == TrimString(nv.before)
            pv   == parseCookieValue(nv.after, TRUE)
        IN  IF \/ part = <<>>
               \/ ~nv.found
               \/ ~isCookieNameValid(name)
               \/ (filter /= <<>> /\ filter /= name)
               \/ ~pv.ok
            THEN readLine_NeedsEqual(c.after, filter, cookies)
            ELSE readLine_NeedsEqual(c.after, filter,
                     Append(cookies, Cookie(name, pv.value, pv.quoted)))

\* The loop `for len(line) > 0` of readCookies over one trimmed line:
\* cookies with the cookies of the line's segments appended.
RECURSIVE readLine(_, _, _)
readLine(line, filter, cookies) ==
    IF Len(line) = 0 THEN cookies
    ELSE
        LET c    == Cut(line, SEMI)
            part == TrimString(c.before)
            nv   == Cut(part, EQ)
            name == TrimString(nv.before)
            pv   == parseCookieValue(nv.after, TRUE)
        IN  IF part = <<>> THEN readLine(c.after, filter, cookies)
            ELSE IF ~isCookieNameValid(name) THEN readLine(c.after, filter, cookies)
            ELSE IF filter /= <<>> /\ filter /= name
                 THEN readLine(c.after, filter, cookies)
            ELSE IF ~pv.ok THEN readLine(c.after, filter, cookies)
            ELSE readLine(c.after, filter,
                     Append(cookies, Cookie(name, pv.value, pv.quoted)))

\* The loop `for _, line := range lines` of readCookies, from line i on.
RECURSIVE readLines(_, _, _, _)
readLines(lines, i, filter, cookies) ==
    IF i > Len(lines) THEN cookies
    ELSE readLines(lines, i + 1, filter,
             readLine(TrimString(lines[i]), filter, cookies))

readCookies_NilWhenAbsent(h, filter) ==
    LET lines == HeaderValues(h, "Cookie")
    IN  IF Len(lines) = 0 THEN Slice(TRUE, <<>>)
        ELSE Slice(FALSE, readLines(lines, 1, filter, <<>>))

readCookies(h, filter) ==
    LET lines == HeaderValues(h, "Cookie")
    IN  IF Len(lines) = 0 THEN Slice(FALSE, <<>>)
        \* make(..., len(lines)+strings.Count(lines[0], ";")) indexes lines[0]
        ELSE IF ~IndexOK(lines, 0) THEN Panic
        ELSE Slice(FALSE, readLines(lines, 1, filter, <<>>))

----------------------------------------------------------------------------
(* The cookie codec called on drawn inputs *)

NoRet == [none |-> TRUE]

\* The name filters a caller asks for: none, a name and a string that is
\* no token.
Filters == {<<>>, <<LA>>, <<EQ>>}

\* Headers: no Cookie key, a Cookie key with no line, one line, and two
\* short lines.
Headers ==
    {<<>>} \cup {[Cookie |-> <<>>]}
        \cup {[Cookie |-> <<l>>] : l \in Strs(MaxLen)}
        \cup {[Cookie |-> <<l1, l2>>] : l1 \in Strs(MaxShortLen), l2 \in Strs(MaxShortLen)}

InitCodec ==
    /\ \/ /\ op = "readCookies"
          /\ args \in [h : Headers, filter : Filters]
       \/ /\ op = "parseCookieValue"
          /\ args \in [raw : Strs(MaxRawLen), allowDoubleQuote : BOOLEAN]
    /\ status = "called"
    /\ ret = NoRet
    /\ stack = <<>>
    /\ libCalls = <<>>
    /\ logged = <<>>
    /\ heap = <<>>

Call_readCookies ==
    /\ op = "readCookies" /\ status = "called"
    /\ LET r == readCookies(args.h, args.filter)
       IN  /\ ret' = r
           /\ status' = IF r.panic THEN "fatal" ELSE "returned"
    /\ UNCHANGED <<op, args, stack, libCalls, logged, heap>>

Call_parseCookieValue ==
    /\ op = "parseCookieValue" /\ status = "called"
    /\ ret' = parseCookieValue(args.raw, args.allowDoubleQuote)
    /\ status' = "returned"
    /\ UNCHANGED <<op, args, stack, libCalls, logged, heap>>

NextCodec == Call_readCookies \/ Call_parseCookieValue

Spec == InitCodec /\ [][NextCodec]_vars

----------------------------------------------------------------------------
(* What a Cookie header says, stated without the parser's loop *)

\* The positions of the semicolons of line, and the k-th of them (0 before
\* the line, Len + 1 after it).
SemiAt(line) == {i \in 1..Len(line) : line[i] = SEMI}

SemiPos(line, k) ==
    IF k = 0 THEN 0
    ELSE IF k > Cardinality(SemiAt(line)) THEN Len(line) + 1
    ELSE CHOOSE i \in SemiAt(line) : Cardinality({j \in SemiAt(line) : j < i}) = k - 1

\* The segments of line between its semicolons, each without its outer
\* whitespace, left to right.
Segments(line) ==
    [k \in 1..(Cardinality(SemiAt(line)) + 1) |->
        TrimString(SubSeq(line, SemiPos(line, k - 1) + 1, SemiPos(line, k) - 1))]

RECURSIVE Flatten(_)
Flatten(seqs) == IF seqs = <<>> THEN <<>> ELSE Head(seqs) \o Flatten(Tail(seqs))

\* Every segment of every Cookie line of h, in header order.
AllSegments(h) ==
    LET lines == HeaderValues(h, "Cookie")
    IN  Flatten([i \in 1..Len(lines) |-> Segments(lines[i])])

HasEqual(seg) == \E i \in 1..Len(seg) : seg[i] = EQ

\* The name and the raw value of a segment: the text on either side of its
\* first '=', the whole segment being the name when it has none.
SegName(seg) ==
    IF HasEqual(seg)
    THEN TrimString(SubSeq(seg, 1, (CHOOSE i \in 1..Len(seg) :
             seg[i] = EQ /\ \A j \in 1..(i - 1) : seg[j] /= EQ) - 1))
    ELSE seg

SegRaw(seg) ==
    IF HasEqual(seg)
    THEN SubSeq(seg, (CHOOSE i \in 1..Len(seg) :
             seg[i] = EQ /\ \A j \in 1..(i - 1) : seg[j] /= EQ) + 1, Len(seg))
    ELSE <<>>

\* The token grammar: one or more bytes that are neither controls nor
\* separators.
TokenBytes == (33..126) \ Separators
IsToken(name) == name /= <<>> /\ \A i \in 1..Len(name) : name[i] \in TokenBytes

\* The raw value without its enclosing quotes, and whether it had them.
IsQuoted(raw) == Len(raw) > 1 /\ raw[1] = DQ /\ raw[Len(raw)] = DQ
Unquoted(raw) == IF IsQuoted(raw) THEN SubSeq(raw, 2, Len(raw) - 1) ELSE raw

\* cookie-octet: 0x21 to 0x7E without the quote, the semicolon and the
\* backslash; the bytes the parser lets through are these and the space.
CookieOctets == (33..126) \ {DQ, SEMI, BSL}
ValueBytes == (32..126) \ {DQ, SEMI, BSL}

Within(str, bytes) == \A i \in 1..Len(str) : str[i] \in bytes

\* A segment survives when it is not empty, its name is a token and its
\* unquoted value has only bytes the parser lets through.
Survives(seg) ==
    seg /= <<>> /\ IsToken(SegName(seg)) /\ Within(Unquoted(SegRaw(seg)), ValueBytes)

SegCookie(seg) == Cookie(SegName(seg), Unquoted(SegRaw(seg)), IsQuoted(SegRaw(seg)))

Wanted(seg, filter) == filter = <<>> \/ SegName(seg) = filter

\* The cookies of the segments of segs that pass keep, in order.
CookiesOf(segs, filter, keep(_)) ==
    LET Test(seg) == keep(seg) /\ Wanted(seg, filter)
        kept == SelectSeq(segs, Test)
    IN  [i \in 1..Len(kept) |-> SegCookie(kept[i])]

HowMany(seq, P(_)) == Cardinality({i \in 1..Len(seq) : P(seq[i])})

Read == op = "readCookies" /\ status /= "called"

\* C4: readCookies never fails: for every header (no Cookie line, an empty
\* line, a line of separators and whitespace only included) the call
\* returns, without a panic, a slice that is not nil, and the slice is
\* empty when no segment of the header survives.
C4_ReadCookiesNeverFails ==
    Read =>
        /\ status = "returned"
        /\ ~ret.panic
        /\ ~ret.nil
        /\ ((\A i \in 1..Len(AllSegments(args.h)) : ~Survives(AllSegments(args.h)[i]))
                => ret.cookies = <<>>)

\* C4 witness: the header whose one Cookie line is "; ;" was read and gave
\* an empty slice that is not nil.
C4_Witness ==
    /\ Read /\ status = "returned"
    /\ args.h = [Cookie |-> <<<<SEMI, SP, SEMI>>>>]
    /\ ret.cookies = <<>> /\ ~ret.nil

\* C5: readCookies emits one cookie per surviving segment, in the header's
\* left to right order, and keeps every occurrence of a repeated name: the
\* cookies of a name are as many as the surviving segments of that name.
C5_OnePerSegmentInOrder ==
    Read =>
        /\ ret.cookies = CookiesOf(AllSegments(args.h), args.filter, Survives)
        /\ \A i \in 1..Len(ret.cookies) :
               LET n == ret.cookies[i].Name
                   IsN(c) == c.Name = n
                   SegN(seg) == Survives(seg) /\ Wanted(seg, args.filter) /\ SegName(seg) = n
               IN  HowMany(ret.cookies, IsN) = HowMany(AllSegments(args.h), SegN)

\* C5 witness: the line "a=a;a" was read and gave two cookies of the name
\* a, the one with the value a first.
C5_Witness ==
    /\ Read /\ status = "returned"
    /\ args.h = [Cookie |-> <<<<LA, EQ, LA, SEMI, LA>>>>]
    /\ ret.cookies = <<Cookie(<<LA>>, <<LA>>, FALSE), Cookie(<<LA>>, <<>>, FALSE)>>

\* C6 as claimed: a segment with no '=' is discarded, so the cookies are
\* those of the surviving segments that have an '='.
C6_NoEqualDiscarded ==
    Read =>
        LET Keep(seg) == Survives(seg) /\ HasEqual(seg)
        IN  ret.cookies = CookiesOf(AllSegments(args.h), args.filter, Keep)

\* C6 as amended: a segment with no '=' is read as a name with an empty
\* value: it gives the cookie (segment, "", unquoted) when the segment is a
\* token (and is the filter's name, if any), and no cookie otherwise.
C6_NoEqualIsEmptyValue ==
    Read =>
        LET segs == AllSegments(args.h)
            Bare(seg) == ~HasEqual(seg) /\ IsToken(seg) /\ Wanted(seg, args.filter)
            WithEq(seg) == HasEqual(seg) /\ Survives(seg) /\ Wanted(seg, args.filter)
        IN  /\ Len(ret.cookies) = HowMany(segs, Bare) + HowMany(segs, WithEq)
            /\ (\A i \in 1..Len(segs) : ~HasEqual(segs[i])) =>
                   /\ \A i \in 1..Len(ret.cookies) :
                          /\ ret.cookies[i].Value = <<>>
                          /\ ~ret.cookies[i].Quoted
                          /\ \E j \in 1..Len(segs) : segs[j] = ret.cookies[i].Name

\* C6 witness: the line "a" (no '=') was read with no filter and gave the
\* cookie a with an empty value.
C6_Witness ==
    /\ Read /\ status = "returned"
    /\ args.h = [Cookie |-> <<<<LA>>>>] /\ args.filter = <<>>
    /\ ret.cookies = <<Cookie(<<LA>>, <<>>, FALSE)>>

\* C7: every cookie readCookies returns has a non-empty Name that is a
\* token, and a segment whose name is empty or no token gives no cookie:
\* there are no more cookies than segments with a token for a name.
C7_NamesAreTokens ==
    Read =>
        LET Named(seg) == seg /= <<>> /\ IsToken(SegName(seg))
        IN  /\ \A i \in 1..Len(ret.cookies) :
                   /\ ret.cookies[i].Name /= <<>>
                   /\ IsToken(ret.cookies[i].Name)
            /\ Len(ret.cookies) <= HowMany(AllSegments(args.h), Named)

\* C7 witness: a line with a segment of empty name ("=a") and a segment of
\* valid name was read and gave the one cookie of the valid name.
C7_Witness ==
    /\ Read /\ status = "returned"
    /\ args.h = [Cookie |-> <<<<EQ, LA, SEMI, LA, EQ>>>>] /\ args.filter = <<>>
    /\ ret.cookies = <<Cookie(<<LA>>, <<>>, FALSE)>>

\* C8 as claimed: every byte of every returned Value is a cookie-octet
\* (0x21 to 0x7E without '"', ';' and '\').
C8_ValuesAreCookieOctets ==
    Read => \A i \in 1..Len(ret.cookies) : Within(ret.cookies[i].Value, CookieOctets)

\* C8 as amended: every byte of every returned Value is a space or a
\* cookie-octet (0x20 to 0x7E without '"', ';' and '\'), and a segment
\* whose unquoted value has any other byte is discarded whole: there are no
\* more cookies than segments whose unquoted value has only such bytes.
C8_ValuesAreLoosenedOctets ==
    Read =>
        LET Clean(seg) == seg /= <<>> /\ Within(Unquoted(SegRaw(seg)), ValueBytes)
        IN  /\ \A i \in 1..Len(ret.cookies) : Within(ret.cookies[i].Value, ValueBytes)
            /\ Len(ret.cookies) <= HowMany(AllSegments(args.h), Clean)

\* C8 witness: the line "a= a" was read and gave a cookie whose Value
\* begins with a space.
C8_Witness ==
    /\ Read /\ status = "returned"
    /\ args.h = [Cookie |-> <<<<LA, EQ, SP, LA>>>>]
    /\ ret.cookies = <<Cookie(<<LA>>, <<SP, LA>>, FALSE)>>

ParsedValue == op = "parseCookieValue" /\ status = "returned" /\ args.allowDoubleQuote

\* C9: with quoting allowed, parseCookieValue strips the enclosing quotes
\* and reports quoted exactly when raw is longer than one byte and begins
\* and ends with a quote; otherwise raw is validated as it is and quoted is
\* false, so a lone quote is rejected.
C9_UnquoteExactlyWhenEnclosed ==
    ParsedValue =>
        /\ ret.quoted = IsQuoted(args.raw)
        /\ ret.ok = Within(Unquoted(args.raw), ValueBytes)
        /\ ret.ok => ret.value = Unquoted(args.raw)
        /\ (~IsQuoted(args.raw) /\ ret.ok) => ret.value = args.raw
        /\ args.raw = <<DQ>> => (~ret.ok /\ ~ret.quoted)

\* C9 witness: the value "a" in quotes was parsed to a, quoted.
C9_Witness ==
    /\ ParsedValue
    /\ args.raw = <<DQ, LA, DQ>>
    /\ ret = [value |-> <<LA>>, quoted |-> TRUE, ok |-> TRUE]

\* C10: with a filter f that is not empty, readCookies(h, f) is the
\* subsequence of readCookies(h, "") of the cookies named f, in order; with
\* no filter no surviving segment is left out for its name.
C10_FilterIsSubsequence ==
    Read =>
        LET all == readCookies(args.h, <<>>).cookies
            Named(c) == c.Name = args.filter
        IN  IF args.filter /= <<>>
            THEN ret.cookies = SelectSeq(all, Named)
            ELSE Len(ret.cookies) = HowMany(AllSegments(args.h), Survives)

\* C10 witness: a header with cookies a and aa was read with filter a and
\* gave the cookie a alone.
C10_Witness ==
    /\ Read /\ status = "returned"
    /\ args.filter = <<LA>>
    /\ Len(readCookies(args.h, <<>>).cookies) = 2
    /\ Len(ret.cookies) = 1

----------------------------------------------------------------------------
(* cookie.go: the validators of the Domain and Expires attributes *)

HYPHEN == 45   \* '-'
DOT    == 46   \* '.'
COLON  == 58   \* ':'
D0     == 48   \* '0'
D1     == 49   \* '1'
D9     == 57   \* '9'
UA     == 65   \* 'A'
UZ     == 90   \* 'Z'
LZ     == 122  \* 'z'

\* The longest label and the longest name isCookieDomainName lets through.
MaxLabel  == 63
MaxDomain == 255

isLetter(c) == (LA <= c /\ c <= LZ) \/ (UA <= c /\ c <= UZ)
isDigit(c)  == D0 <= c /\ c <= D9

\* The locals of isCookieDomainName's loop; done once it has returned false.
DomainLocals(last, ok, partlen, done) ==
    [last |-> last, ok |-> ok, partlen |-> partlen, done |-> done]

Refused(st) == [st EXCEPT !.done = TRUE]

domainStep_HyphenAfterDot(st, c) ==
    IF st.done THEN st
    ELSE IF isLetter(c) THEN DomainLocals(c, TRUE, st.partlen + 1, FALSE)
    ELSE IF isDigit(c) THEN DomainLocals(c, st.ok, st.partlen + 1, FALSE)
    ELSE IF c = HYPHEN THEN DomainLocals(c, st.ok, st.partlen + 1, FALSE)
    ELSE IF c = DOT
         THEN IF st.last = DOT \/ st.last = HYPHEN THEN Refused(st)
              ELSE IF st.partlen > MaxLabel \/ st.partlen = 0 THEN Refused(st)
              ELSE DomainLocals(c, st.ok, 0, FALSE)
    ELSE Refused(st)

\* One turn of the loop `for i := 0; i < len(s); i++` on the byte c.
domainStep(st, c) ==
    IF st.done THEN st
    ELSE IF isLetter(c) THEN DomainLocals(c, TRUE, st.partlen + 1, FALSE)
    ELSE IF isDigit(c) THEN DomainLocals(c, st.ok, st.partlen + 1, FALSE)
    ELSE IF c = HYPHEN
         THEN IF st.last = DOT THEN Refused(st)
              ELSE DomainLocals(c, st.ok, st.partlen + 1, FALSE)
    ELSE IF c = DOT
         THEN IF st.last = DOT \/ st.last = HYPHEN THEN Refused(st)
              ELSE IF st.partlen > MaxLabel \/ st.partlen = 0 THEN Refused(st)
              ELSE DomainLocals(c, st.ok, 0, FALSE)
    ELSE Refused(st)

\* The turns of the loop on the bytes lo..hi of s, in order, up to the one
\* that returns false (split in halves to keep the evaluation shallow).
RECURSIVE domainLoop(_, _, _, _)
domainLoop(s, lo, hi, st) ==
    IF lo > hi THEN st
    ELSE IF lo = hi THEN domainStep(st, s[lo])
    ELSE LET mid  == (lo + hi) \div 2
             left == domainLoop(s, lo, mid, st)
         IN  IF left.done THEN left ELSE domainLoop(s, mid + 1, hi, left)

isCookieDomainName(s) ==
    IF Len(s) = 0 THEN FALSE
    ELSE IF Len(s) > MaxDomain THEN FALSE
    ELSE LET t  == IF s[1] = DOT THEN From(s, 1) ELSE s
             st == domainLoop(t, 1, Len(t), DomainLocals(DOT, FALSE, 0, FALSE))
         IN  IF st.done THEN FALSE
             ELSE IF st.last = HYPHEN \/ st.partlen > MaxLabel THEN FALSE
             ELSE st.ok

\* strings.Contains(s, sep) for a one-byte sep.
Contains(s, b) == IndexByte(s, b) >= 0

\* The positions of byte sep in s, the k-th of them (0 before s, Len + 1
\* after it), and the fields of s between them (strings.Split).
SepAt(s, sep) == {i \in 1..Len(s) : s[i] = sep}

SepPos(s, sep, k) ==
    IF k = 0 THEN 0
    ELSE IF k > Cardinality(SepAt(s, sep)) THEN Len(s) + 1
    ELSE CHOOSE i \in SepAt(s, sep) : Cardinality({j \in SepAt(s, sep) : j < i}) = k - 1

Fields(s, sep) ==
    [k \in 1..(Cardinality(SepAt(s, sep)) + 1) |->
        SubSeq(s, SepPos(s, sep, k - 1) + 1, SepPos(s, sep, k) - 1)]

RECURSIVE Decimal(_)
Decimal(digits) ==
    IF digits = <<>> THEN 0
    ELSE 10 * Decimal(Upto(digits, Len(digits) - 1)) + (digits[Len(digits)] - D0)

\* One field of a dotted IPv4 address: decimal, no leading zero, at most 255.
IsOctet(f) ==
    /\ Len(f) >= 1 /\ Len(f) <= 3
    /\ \A i \in 1..Len(f) : isDigit(f[i])
    /\ (Len(f) > 1 => f[1] /= D0)
    /\ Decimal(f) <= 255

IsIPv4(s) ==
    LET f == Fields(s, DOT)
    IN  Len(f) = 4 /\ \A i \in 1..4 : IsOctet(f[i])

isHexDigit(c) == isDigit(c) \/ (LA <= c /\ c <= 102) \/ (UA <= c /\ c <= 70)

\* One group of an IPv6 address: one to four hexadecimal digits.
IsGroup(f) == Len(f) >= 1 /\ Len(f) <= 4 /\ \A i \in 1..Len(f) : isHexDigit(f[i])

\* Colon-separated groups, the last of which may be a dotted IPv4 address
\* (two groups' worth); 0 groups for the empty text.  -1 when malformed.
GroupCount(text, v4tail) ==
    IF text = <<>> THEN 0
    ELSE LET f == Fields(text, COLON)
             n == Len(f)
         IN  IF \A i \in 1..(n - 1) : IsGroup(f[i])
             THEN IF IsGroup(f[n]) THEN n
                  ELSE IF v4tail /\ IsIPv4(f[n]) THEN n + 1
                  ELSE -1
             ELSE -1

IsIPv6(s) ==
    LET ell == {i \in 1..(Len(s) - 1) : s[i] = COLON /\ s[i + 1] = COLON}
    IN  IF ell = {} THEN Contains(s, COLON) /\ GroupCount(s, TRUE) = 8
        ELSE IF Cardinality(ell) > 1 THEN FALSE
        ELSE LET i == CHOOSE j \in ell : TRUE
                 l == GroupCount(Upto(s, i - 1), FALSE)
                 r == GroupCount(SubSeq(s, i + 2, Len(s)), TRUE)
             IN  l >= 0 /\ r >= 0 /\ l + r <= 7

\* net.ParseIP(v): "v4" or "v6" for a literal address (no zone, no port),
\* "nil" for anything else.
ParseIP(v) == IF IsIPv4(v) THEN "v4" ELSE IF IsIPv6(v) THEN "v6" ELSE "nil"

validCookieDomain_AnyIP(v) ==
    isCookieDomainName(v) \/ ParseIP(v) /= "nil"

validCookieDomain(v) ==
    IF isCookieDomainName(v) THEN TRUE
    ELSE IF ParseIP(v) /= "nil" /\ ~Contains(v, COLON) THEN TRUE
    ELSE FALSE

\* The first year validCookieExpires lets through.
MinExpiresYear == 1601

\* t.Year(): the year of the day t, counted in days from January 1 of the
\* year 1 (cycles of 400, 100, 4 and 1 years).
Year(t) ==
    LET n400 == t \div 146097
        d1   == t - 146097 * n400
        c    == d1 \div 36524
        n100 == IF c = 4 THEN 3 ELSE c
        d2   == d1 - 36524 * n100
        n4   == d2 \div 1461
        d3   == d2 - 1461 * n4
        y    == d3 \div 365
        n1   == IF y = 4 THEN 3 ELSE y
    IN  400 * n400 + 100 * n100 + 4 * n4 + n1 + 1

validCookieExpires_After(t) == Year(t) > MinExpiresYear

validCookieExpires(t) == Year(t) >= MinExpiresYear

----------------------------------------------------------------------------
(* request.go: ParseHTTPVersion *)

HTTPSlash == <<72, 84, 84, 80, 47>>   \* "HTTP/"

HasPrefix(s, prefix) == Len(s) >= Len(prefix) /\ Upto(s, Len(prefix)) = prefix

\* strconv.ParseUint(s, 10, 0) of a one-byte s: the digit's value, or an
\* error for any other byte (a sign included).
ParseUint(s) ==
    IF isDigit(s[1]) THEN [err |-> FALSE, n |-> s[1] - D0]
    ELSE [err |-> TRUE, n |-> 0]

Version(major, minor, ok) == [major |-> major, minor |-> minor, ok |-> ok]

ParseHTTPVersion_NoLengthCheck(vers) ==
    IF vers = HTTPSlash \o <<D1, DOT, D1>> THEN Version(1, 1, TRUE)
    ELSE IF vers = HTTPSlash \o <<D1, DOT, D0>> THEN Version(1, 0, TRUE)
    ELSE IF ~HasPrefix(vers, HTTPSlash) THEN Version(0, 0, FALSE)
    ELSE IF Len(vers) < 8 THEN Version(0, 0, FALSE)
    ELSE IF vers[7] /= DOT THEN Version(0, 0, FALSE)
    ELSE LET maj == ParseUint(SubSeq(vers, 6, 6))
             min == ParseUint(SubSeq(vers, 8, 8))
         IN  IF maj.err THEN Version(0, 0, FALSE)
             ELSE IF min.err THEN Version(0, 0, FALSE)
             ELSE Version(maj.n, min.n, TRUE)

ParseHTTPVersion(vers) ==
    IF vers = HTTPSlash \o <<D1, DOT, D1>> THEN Version(1, 1, TRUE)
    ELSE IF vers = HTTPSlash \o <<D1, DOT, D0>> THEN Version(1, 0, TRUE)
    ELSE IF ~HasPrefix(vers, HTTPSlash) THEN Version(0, 0, FALSE)
    ELSE IF Len(vers) /= 8 THEN Version(0, 0, FALSE)
    ELSE IF vers[7] /= DOT THEN Version(0, 0, FALSE)
    ELSE LET maj == ParseUint(SubSeq(vers, 6, 6))
             min == ParseUint(SubSeq(vers, 8, 8))
         IN  IF maj.err THEN Version(0, 0, FALSE)
             ELSE IF min.err THEN Version(0, 0, FALSE)
             ELSE Version(maj.n, min.n, TRUE)

----------------------------------------------------------------------------
(* The validators called on drawn inputs *)

USC == 95   \* '_'

\* Longest domain name drawn byte by byte, and the most labels of a name
\* drawn label by label.
MaxDomLen == 4
MaxLabels == 4
\* Longest address drawn byte by byte.
MaxIPLen == 7
\* The days drawn on either side of January 1, 1601.
DayWindow == 400
\* Longest cookie name drawn byte by byte.
MaxNameLen == 3
\* Longest text drawn after the start of a version string.
MaxTailLen == 3

\* n bytes c.
Rep(c, n) == [i \in 1..n |-> c]

StrsOver(alphabet, n) == UNION {[1..k -> alphabet] : k \in 0..n}

\* lens[1] letters, a dot, lens[2] letters, ...
RECURSIVE Dotted(_)
Dotted(lens) ==
    IF Len(lens) = 1 THEN Rep(LA, lens[1])
    ELSE Rep(LA, lens[1]) \o <<DOT>> \o Dotted(Tail(lens))

\* Names of up to MaxLabels labels of 1, 63 or 64 letters, with and without
\* a dot before and after.
LongNames ==
    LET lens == UNION {[1..k -> {1, MaxLabel, MaxLabel + 1}] : k \in 1..MaxLabels}
    IN  UNION {{Dotted(l), <<DOT>> \o Dotted(l), Dotted(l) \o <<DOT>>,
                <<DOT>> \o Dotted(l) \o <<DOT>>} : l \in lens}

DomainNames == StrsOver({LA, UZ, D1, HYPHEN, DOT, USC}, MaxDomLen) \cup LongNames

\* Addresses: every short string of digits, dots, colons and a hex letter,
\* and some longer ones: octets at the limit, a port, a zone, eight groups,
\* an IPv4 tail.
Addresses ==
    StrsOver({D1, DOT, COLON, LA}, MaxIPLen) \cup
    {<<50, 53, 53, 46, 50, 53, 53, 46, 50, 53, 53, 46, 50, 53, 53>>,
     <<50, 53, 54, 46, 49, 46, 49, 46, 49>>,
     <<48, 49, 46, 49, 46, 49, 46, 49>>,
     <<49, 46, 49, 46, 49, 46, 49, 58, 56, 48>>,
     <<102, 101, 56, 48, 58, 58, 49, 37, 97>>,
     <<49, 58, 49, 58, 49, 58, 49, 58, 49, 58, 49, 58, 49, 58, 49>>,
     <<58, 58, 49, 46, 49, 46, 49, 46, 49>>,
     <<97, 46, 97>>}

\* The days before January 1 of year y, counted from January 1 of year 1.
DaysBefore(y) ==
    365 * (y - 1) + ((y - 1) \div 4) - ((y - 1) \div 100) + ((y - 1) \div 400)

Days ==
    {0, 1, 365, DaysBefore(2026)} \cup
    ((DaysBefore(MinExpiresYear) - DayWindow)..(DaysBefore(MinExpiresYear) + DayWindow))

\* Cookie names: every short string of token bytes, separators, a control
\* (NUL), DEL and a byte that is not ASCII, and two usual names.
session_id == <<115, 101, 115, 115, 105, 111, 110, 95, 105, 100>>
X_Auth_1   == <<88, 45, 65, 117, 116, 104, 46, 49>>

Names ==
    StrsOver({LA, USC, HYPHEN, DOT, EQ, SEMI, SP, 9, 0, DEL, 200}, MaxNameLen)
        \cup {session_id, X_Auth_1}

\* Version strings: a start, right or wrong, and a short tail.
Versions ==
    {start \o tail :
        start \in {HTTPSlash, <<72, 84, 84, 80>>, <<104, 116, 116, 112, 47>>,
                   HTTPSlash \o <<D1>>},
        tail \in StrsOver({D0, D1, 50, D9, DOT, 43, LA}, MaxTailLen)}

Verdict(b) == [ok |-> b]

InitValid ==
    /\ \/ /\ op = "isCookieDomainName" /\ args \in [s : DomainNames]
       \/ /\ op = "validCookieDomain" /\ args \in [v : Addresses]
       \/ /\ op = "validCookieExpires" /\ args \in [t : Days]
       \/ /\ op = "isCookieNameValid" /\ args \in [raw : Names]
       \/ /\ op = "ParseHTTPVersion" /\ args \in [vers : Versions]
    /\ status = "called"
    /\ ret = NoRet
    /\ stack = <<>>
    /\ libCalls = <<>>
    /\ logged = <<>>
    /\ heap = <<>>

Call_isCookieDomainName ==
    /\ op = "isCookieDomainName" /\ status = "called"
    /\ ret' = Verdict(isCookieDomainName(args.s))
    /\ status' = "returned"
    /\ UNCHANGED <<op, args, stack, libCalls, logged, heap>>

Call_validCookieDomain ==
    /\ op = "validCookieDomain" /\ status = "called"
    /\ ret' = Verdict(validCookieDomain(args.v))
    /\ status' = "returned"
    /\ UNCHANGED <<op, args, stack, libCalls, logged, heap>>

Call_validCookieExpires ==
    /\ op = "validCookieExpires" /\ status = "called"
    /\ ret' = Verdict(validCookieExpires(args.t))
    /\ status' = "returned"
    /\ UNCHANGED <<op, args, stack, libCalls, logged, heap>>

Call_isCookieNameValid ==
    /\ op = "isCookieNameValid" /\ status = "called"
    /\ ret' = Verdict(isCookieNameValid(args.raw))
    /\ status' = "returned"
    /\ UNCHANGED <<op, args, stack, libCalls, logged, heap>>

Call_ParseHTTPVersion ==
    /\ op = "ParseHTTPVersion" /\ status = "called"
    /\ ret' = ParseHTTPVersion(args.vers)
    /\ status' = "returned"
    /\ UNCHANGED <<op, args, stack, libCalls, logged, heap>>

NextValid ==
    \/ Call_isCookieDomainName
    \/ Call_validCookieDomain
    \/ Call_validCookieExpires
    \/ Call_isCookieNameValid
    \/ Call_ParseHTTPVersion

SpecValid == InitValid /\ [][NextValid]_vars

Did(f) == op = f /\ status = "returned"

\* The name of a domain string: the string without one leading dot.
Bare(s) == IF s /= <<>> /\ s[1] = DOT THEN From(s, 1) ELSE s

\* Parts of the grammar of a domain name n.
DomainBytes(n) == \A i \in 1..Len(n) : isLetter(n[i]) \/ isDigit(n[i]) \/ n[i] \in {HYPHEN, DOT}
HasLetter(n) == \E i \in 1..Len(n) : isLetter(n[i])
NoHyphenByDot(n) ==
    \A i \in 1..(Len(n) - 1) :
        ~(n[i] = HYPHEN /\ n[i + 1] = DOT) /\ ~(n[i] = DOT /\ n[i + 1] = HYPHEN)
LabelsWithin(labels) == \A i \in 1..Len(labels) : Len(labels[i]) >= 1 /\ Len(labels[i]) <= MaxLabel

\* C11 as claimed: isCookieDomainName accepts s exactly when s without one
\* leading dot is made of letters, digits, hyphens and dots, its labels are
\* all 1 to 63 bytes long, no hyphen is next to a dot, a letter occurs and
\* the length is at most 255.
C11_DomainGrammar ==
    Did("isCookieDomainName") =>
        LET n == Bare(args.s)
        IN  ret.ok = (/\ args.s /= <<>> /\ Len(args.s) <= MaxDomain
                      /\ DomainBytes(n) /\ HasLetter(n) /\ NoHyphenByDot(n)
                      /\ LabelsWithin(Fields(n, DOT)))

\* C11 as amended: isCookieDomainName accepts s exactly when s is at most
\* 255 bytes long and s without one leading dot, and without one trailing
\* dot, is made of letters, digits, hyphens and dots, its labels are all 1
\* to 63 bytes long, no label begins or ends with a hyphen (so no hyphen is
\* next to a dot, nor first or last), and a letter occurs.
C11_DomainGrammarAmended ==
    Did("isCookieDomainName") =>
        LET b == Bare(args.s)
            n == IF b /= <<>> /\ b[Len(b)] = DOT THEN Upto(b, Len(b) - 1) ELSE b
            labels == Fields(n, DOT)
        IN  ret.ok = (/\ args.s /= <<>> /\ Len(args.s) <= MaxDomain
                      /\ DomainBytes(n) /\ HasLetter(n)
                      /\ LabelsWithin(labels)
                      /\ \A i \in 1..Len(labels) :
                             labels[i] /= <<>> =>
                                 /\ labels[i][1] /= HYPHEN
                                 /\ labels[i][Len(labels[i])] /= HYPHEN)

\* C11 witness: a name with an empty label between two dots ("a..a") was
\* refused.
C11_Witness ==
    Did("isCookieDomainName") /\ args.s = <<LA, DOT, DOT, LA>> /\ ~ret.ok

\* C12 as claimed: validCookieDomain accepts every literal IPv4 or IPv6
\* address that has no zone and no port.
C12_AcceptsEveryIP ==
    (Did("validCookieDomain") /\ (IsIPv4(args.v) \/ IsIPv6(args.v))) => ret.ok

\* C12 as amended: validCookieDomain accepts every literal IPv4 address
\* (four decimal octets); it accepts no string with a colon, so no literal
\* IPv6 address.
C12_AcceptsIPv4Only ==
    Did("validCookieDomain") =>
        /\ IsIPv4(args.v) => ret.ok
        /\ Contains(args.v, COLON) => ~ret.ok
        /\ IsIPv6(args.v) => ~ret.ok

\* C12 witness: the address 1.1.1.1 was accepted.
C12_Witness ==
    Did("validCookieDomain") /\ args.v = <<D1, DOT, D1, DOT, D1, DOT, D1>> /\ ret.ok

\* C13: validCookieExpires(t) is true exactly when the year of t is 1601 or
\* later, that is from January 1, 1601 on: a time in 1600 or before is
\* refused.
C13_ExpiresFloor ==
    Did("validCookieExpires") => (ret.ok = (args.t >= DaysBefore(MinExpiresYear)))

\* C13 witness: the last day of 1600 was refused.
C13_Witness ==
    Did("validCookieExpires") /\ args.t = DaysBefore(MinExpiresYear) - 1 /\ ~ret.ok

\* C18: isCookieNameValid refuses the empty name and every name with a
\* separator ('=', ';', space, tab, ...) or a control character, and accepts
\* every non-empty name made only of token characters.
C18_NameIsToken ==
    Did("isCookieNameValid") =>
        /\ args.raw = <<>> => ~ret.ok
        /\ (\E i \in 1..Len(args.raw) :
               args.raw[i] \in Separators \/ args.raw[i] < 32 \/ args.raw[i] = DEL)
              => ~ret.ok
        /\ IsToken(args.raw) => ret.ok

\* C18 witness: the name "X-Auth.1" was accepted.
C18_Witness ==
    Did("isCookieNameValid") /\ args.raw = X_Auth_1 /\ ret.ok

\* "HTTP/" digit "." digit.
IsVersion(s) ==
    /\ Len(s) = 8
    /\ SubSeq(s, 1, 5) = HTTPSlash
    /\ s[6] \in D0..D9 /\ s[7] = DOT /\ s[8] \in D0..D9

\* C19: ParseHTTPVersion returns ok exactly for "HTTP/" digit "." digit, with
\* the two digits' values as major and minor; for any other string it
\* returns (0, 0, false).
C19_VersionForm ==
    Did("ParseHTTPVersion") =>
        ret = IF IsVersion(args.vers)
              THEN [major |-> args.vers[6] - 48, minor |-> args.vers[8] - 48, ok |-> TRUE]
              ELSE [major |-> 0, minor |-> 0, ok |-> FALSE]

\* C19 witness: "HTTP/2.0" gave (2, 0, true).
C19_Witness ==
    /\ Did("ParseHTTPVersion")
    /\ args.vers = HTTPSlash \o <<50, DOT, D0>>
    /\ ret = [major |-> 2, minor |-> 0, ok |-> TRUE]

----------------------------------------------------------------------------
(* cookie.go: the sanitizers of the serialized form *)

LF    == 10   \* '\n'
CR    == 13   \* '\r'
COMMA == 44   \* ','

\* strings.NewReplacer("\n", "-", "\r", "-"): old byte to new byte.
cookieNameSanitizer == (LF :> HYPHEN) @@ (CR :> HYPHEN)

sanitizeCookieName_DropsNewlines(n) ==
    LET kept(b) == b \notin DOMAIN cookieNameSanitizer
    IN  SelectSeq(n, kept)

sanitizeCookieName(n) ==
    [i \in 1..Len(n) |->
        IF n[i] \in DOMAIN cookieNameSanitizer THEN cookieNameSanitizer[n[i]] ELSE n[i]]

validCookiePathByte(b) == 32 <= b /\ b < DEL /\ b /= SEMI

\* The line log.Printf writes: the byte and the field it was found in.
LogLine(b, fieldName) == [byte |-> b, field |-> fieldName]

\* What a sanitizer hands back, and the lines it has logged on the way.
Sanitized(out, lines) == [out |-> out, log |-> lines]

sanitizeOrWarn_Truncates(fieldName, valid, v) ==
    LET bad == {i \in 1..Len(v) : ~valid[v[i]]}
    IN  IF bad = {} THEN Sanitized(v, <<>>)
        ELSE LET i == CHOOSE k \in bad : \A j \in bad : k <= j
             IN  Sanitized(Upto(v, i - 1), <<LogLine(v[i], fieldName)>>)

\* valid is the func(byte) bool passed, as a function of the byte.  The
\* first loop stops at the first invalid byte and logs it; the second copies
\* the valid bytes to buf.
sanitizeOrWarn(fieldName, valid, v) ==
    LET bad == {i \in 1..Len(v) : ~valid[v[i]]}
        keep(b) == valid[b]
    IN  IF bad = {} THEN Sanitized(v, <<>>)
        ELSE LET i == CHOOSE k \in bad : \A j \in bad : k <= j
             IN  Sanitized(SelectSeq(v, keep), <<LogLine(v[i], fieldName)>>)

\* strings.ContainsAny(v, chars)
ContainsAny(v, chars) == \E i \in 1..Len(v) : v[i] \in chars

sanitizeCookieValue_QuotesOnSpaceOnly(v, quoted) ==
    LET r == sanitizeOrWarn("Cookie.Value", [b \in 0..255 |-> validCookieValueByte(b)], v)
    IN  IF Len(r.out) = 0 THEN r
        ELSE IF ContainsAny(r.out, {SP}) \/ quoted
             THEN Sanitized(<<DQ>> \o r.out \o <<DQ>>, r.log)
        ELSE r

sanitizeCookieValue_AlwaysQuotes(v, quoted) ==
    LET r == sanitizeOrWarn("Cookie.Value", [b \in 0..255 |-> validCookieValueByte(b)], v)
    IN  IF Len(r.out) = 0 THEN r
        ELSE Sanitized(<<DQ>> \o r.out \o <<DQ>>, r.log)

sanitizeCookieValue(v, quoted) ==
    LET r == sanitizeOrWarn("Cookie.Value", [b \in 0..255 |-> validCookieValueByte(b)], v)
    IN  IF Len(r.out) = 0 THEN r
        ELSE IF ContainsAny(r.out, {SP, COMMA}) \/ quoted
             THEN Sanitized(<<DQ>> \o r.out \o <<DQ>>, r.log)
        ELSE r

sanitizeCookiePath_Truncates(v) ==
    LET bad == {i \in 1..Len(v) : ~validCookiePathByte(v[i])}
    IN  IF bad = {} THEN Sanitized(v, <<>>)
        ELSE LET i == CHOOSE k \in bad : \A j \in bad : k <= j
             IN  Sanitized(Upto(v, i - 1), <<LogLine(v[i], "Cookie.Path")>>)

sanitizeCookiePath(v) == sanitizeOrWarn("Cookie.Path", [b \in 0..255 |-> validCookiePathByte(b)], v)

----------------------------------------------------------------------------
(* The sanitizers called on drawn inputs, alone, before the parser and
   after it *)

\* Longest name, value or path handed to a sanitizer, and longest Cookie
\* line read and written back.
MaxFieldLen == 3
MaxLineLen  == 4

hello_world == <<104, 101, 108, 108, 111, COMMA, SP, 119, 111, 114, 108, 100>>

\* Fields: valid bytes, the space and the comma, the bytes either predicate
\* refuses (quote, semicolon, backslash, CR, LF, DEL, not ASCII).
Fields3 ==
    StrsOver({LA, SP, COMMA, DQ, SEMI, BSL, LF, CR, DEL, 200}, MaxFieldLen)
        \cup {hello_world}

Lines == StrsOver({LA, EQ, COMMA, SP, DQ, SEMI}, MaxLineLen)

InitSer ==
    /\ \/ /\ op = "sanitizeCookieName" /\ args \in [n : Fields3]
       \/ /\ op = "sanitizeCookieValue" /\ args \in [v : Fields3, quoted : BOOLEAN]
       \/ /\ op = "sanitizeCookiePath" /\ args \in [v : Fields3]
       \/ /\ op = "writeRead" /\ args \in [v : Fields3, quoted : BOOLEAN]
       \/ /\ op = "readWrite" /\ args \in [line : Lines]
    /\ status = "called"
    /\ ret = NoRet
    /\ stack = <<>>
    /\ libCalls = <<>>
    /\ logged = <<>>
    /\ heap = <<>>

Call_sanitizeCookieName ==
    /\ op = "sanitizeCookieName" /\ status = "called"
    /\ ret' = [out |-> sanitizeCookieName(args.n)]
    /\ status' = "returned"
    /\ UNCHANGED <<op, args, stack, libCalls, logged, heap>>

Call_sanitizeCookieValue ==
    /\ op = "sanitizeCookieValue" /\ status = "called"
    /\ LET r == sanitizeCookieValue(args.v, args.quoted)
       IN  /\ ret' = [out |-> r.out]
           /\ logged' = logged \o r.log
    /\ status' = "returned"
    /\ UNCHANGED <<op, args, stack, libCalls, heap>>

Call_sanitizeCookiePath ==
    /\ op = "sanitizeCookiePath" /\ status = "called"
    /\ LET r == sanitizeCookiePath(args.v)
       IN  /\ ret' = [out |-> r.out]
           /\ logged' = logged \o r.log
    /\ status' = "returned"
    /\ UNCHANGED <<op, args, stack, libCalls, heap>>

\* A value is serialized ...
Write_Value ==
    /\ op = "writeRead" /\ status = "called"
    /\ LET r == sanitizeCookieValue(args.v, args.quoted)
       IN  /\ ret' = [wire |-> r.out]
           /\ logged' = logged \o r.log
    /\ status' = "written"
    /\ UNCHANGED <<op, args, stack, libCalls, heap>>

\* ... and the serialized form is parsed, quoting allowed.
Read_Written ==
    /\ op = "writeRead" /\ status = "written"
    /\ ret' = [wire |-> ret.wire, parsed |-> parseCookieValue(ret.wire, TRUE)]
    /\ status' = "returned"
    /\ UNCHANGED <<op, args, stack, libCalls, logged, heap>>

\* A Cookie line is read, no filter ...
Read_Line ==
    /\ op = "readWrite" /\ status = "called"
    /\ LET r == readCookies([Cookie |-> <<args.line>>], <<>>)
       IN  /\ ret' = [cookies |-> r.cookies]
           /\ status' = IF r.panic THEN "fatal" ELSE "read"
    /\ UNCHANGED <<op, args, stack, libCalls, logged, heap>>

\* ... and every cookie read is serialized again: its name and its value.
Write_Read ==
    /\ op = "readWrite" /\ status = "read"
    /\ LET value(c) == sanitizeCookieValue(c.Value, c.Quoted)
       IN  /\ ret' = [cookies |-> ret.cookies,
                      pairs |-> [i \in 1..Len(ret.cookies) |->
                                    [name |-> sanitizeCookieName(ret.cookies[i].Name),
                                     value |-> value(ret.cookies[i]).out]]]
           /\ logged' = logged \o
                  Flatten([i \in 1..Len(ret.cookies) |-> value(ret.cookies[i]).log])
    /\ status' = "returned"
    /\ UNCHANGED <<op, args, stack, libCalls, heap>>

NextSer ==
    \/ Call_sanitizeCookieName
    \/ Call_sanitizeCookieValue
    \/ Call_sanitizeCookiePath
    \/ Write_Value
    \/ Read_Written
    \/ Read_Line
    \/ Write_Read

SpecSer == InitSer /\ [][NextSer]_vars

Quote(v) == <<DQ>> \o v \o <<DQ>>

\* The bytes that occur in str.
Range(str) == {str[i] : i \in 1..Len(str)}

\* C14: a non-empty value with a space or a comma and no invalid byte is
\* serialized, not marked quoted, as the value between double quotes, and
\* parsing that form with quoting allowed gives the value back, quoted and ok.
C14_QuotedRoundTrip ==
    (/\ Did("writeRead") /\ ~args.quoted
     /\ args.v /= <<>> /\ Within(args.v, ValueBytes)
     /\ (SP \in Range(args.v) \/ COMMA \in Range(args.v)))
        => /\ ret.wire = Quote(args.v)
           /\ ret.parsed = [value |-> args.v, quoted |-> TRUE, ok |-> TRUE]

\* C14 witness: "hello, world" went out quoted and came back.
C14_Witness ==
    /\ Did("writeRead") /\ ~args.quoted /\ args.v = hello_world
    /\ ret.wire = Quote(hello_world)
    /\ ret.parsed.value = hello_world /\ ret.parsed.quoted

\* C15: the line name=value, name a token and value of cookie-octets, is
\* read as the one cookie (name, value), and serializing that cookie gives
\* name and value again, the value between double quotes exactly when it
\* has a space or a comma.
C15_ReadWriteRoundTrip ==
    Did("readWrite") =>
        \A k \in 1..Len(args.line) :
            LET name  == Upto(args.line, k - 1)
                value == From(args.line, k)
            IN  (args.line[k] = EQ /\ IsToken(name) /\ Within(value, CookieOctets))
                    => /\ ret.cookies = <<Cookie(name, value, FALSE)>>
                       /\ ret.pairs =
                              <<[name |-> name,
                                 value |-> IF SP \in Range(value) \/ COMMA \in Range(value)
                                           THEN Quote(value) ELSE value]>>

\* C15 witness: the line a=a, was read as (a, "a,") and written back with
\* the value between quotes.
C15_Witness ==
    /\ Did("readWrite") /\ args.line = <<LA, EQ, LA, COMMA>>
    /\ ret.cookies = <<Cookie(<<LA>>, <<LA, COMMA>>, FALSE)>>
    /\ ret.pairs = <<[name |-> <<LA>>, value |-> Quote(<<LA, COMMA>>)]>>

\* C16: sanitizeCookieName returns a string as long as its input, with '-'
\* where the input has CR or LF and the input's byte everywhere else, so
\* with no CR and no LF.
C16_NameNewlinesReplaced ==
    Did("sanitizeCookieName") =>
        /\ Len(ret.out) = Len(args.n)
        /\ \A i \in 1..Len(args.n) :
               ret.out[i] = IF args.n[i] = CR \/ args.n[i] = LF THEN 45 ELSE args.n[i]
        /\ \A i \in 1..Len(ret.out) : ret.out[i] /= CR /\ ret.out[i] /= LF

\* C16 witness: a name with a CR and a LF came out with two hyphens.
C16_Witness ==
    Did("sanitizeCookieName") /\ args.n = <<LA, CR, LF>> /\ ret.out = <<LA, 45, 45>>

\* The bytes of str that are in bytes, in order.
RECURSIVE Keep(_, _)
Keep(str, bytes) ==
    IF str = <<>> THEN <<>>
    ELSE (IF Head(str) \in bytes THEN <<Head(str)>> ELSE <<>>) \o Keep(Tail(str), bytes)

PathBytes == (32..126) \ {SEMI}

\* C17: the sanitizers always return: sanitizeCookiePath the input's bytes
\* that are valid in a path, in order; sanitizeCookieValue the input's bytes
\* that are valid in a value, in order, between double quotes when they are
\* not empty and have a space or a comma or the value was quoted; so the
\* input itself, but for those quotes, when all its bytes are valid.
C17_SanitizersFilter ==
    /\ (op \in {"sanitizeCookiePath", "sanitizeCookieValue"} /\ status /= "called")
           => status = "returned"
    /\ Did("sanitizeCookiePath") =>
           /\ ret.out = Keep(args.v, PathBytes)
           /\ Within(args.v, PathBytes) => ret.out = args.v
    /\ Did("sanitizeCookieValue") =>
           LET kept   == Keep(args.v, ValueBytes)
               quotes == kept /= <<>> /\
                         (SP \in Range(kept) \/ COMMA \in Range(kept) \/ args.quoted)
           IN  /\ ret.out = IF quotes THEN Quote(kept) ELSE kept
               /\ Within(args.v, ValueBytes) =>
                      ret.out = IF quotes THEN Quote(args.v) ELSE args.v

\* C17 witness: the path a;a came out as aa, a line logged.
C17_Witness ==
    /\ Did("sanitizeCookiePath") /\ args.v = <<LA, SEMI, LA>>
    /\ ret.out = <<LA, LA>> /\ Len(logged) = 1

\* C28: what sanitizeCookieValue writes, the parser reads: for every string
\* and every quoted flag, parsing the output with quoting allowed is ok and
\* gives the string's valid bytes, in order.
C28_OutputParsesBack ==
    Did("writeRead") =>
        /\ ret.parsed.ok
        /\ ret.parsed.value = Keep(args.v, ValueBytes)

\* C28 witness: "; a", not quoted, went out as " a" between quotes and was
\* read back as " a".
C28_Witness ==
    /\ Did("writeRead") /\ args.v = <<SEMI, SP, LA>> /\ ~args.quoted
    /\ ret.wire = Quote(<<SP, LA>>)
    /\ ret.parsed = [value |-> <<SP, LA>>, quoted |-> TRUE, ok |-> TRUE]

----------------------------------------------------------------------------
(* The exported functions: what each body does, in order.                  *)
(*   lib     a call of net/http's package-level function `name`            *)
(*   method  a call of method `name` on net/http's DefaultClient           *)
(*   local   a call of this package's function `name`                      *)
(*   value   an expression evaluated in place, with no call                *)
(* `pass` says what the call is given: the function's own arguments        *)
(* ("same"), other arguments built from them ("other"), or the value of    *)
(* the previous instruction ("prev").                                      *)

Ins(kind, name, pass) == [kind |-> kind, name |-> name, pass |-> pass]

\* The exported functions whose body is `return http.F(args...)` or
\* `http.F(args...)`.
LibWrappers ==
    {"ParseCookie", "SetCookie",
     "NewRequestWithContext", "ReadRequest", "MaxBytesReader",
     "ReadResponse",
     "ServeContent", "ServeFile", "ServeFileFS", "FS", "FileServer",
     "Error", "StripPrefix", "Redirect", "RedirectHandler", "Handle",
     "HandleFunc", "Serve", "ServeTLS", "AllowQuerySemicolons",
     "ListenAndServe", "ListenAndServeTLS", "TimeoutHandler", "MaxBytesHandler"}

\* `return DefaultClient.F(args...)`, DefaultClient being http.DefaultClient.
ClientWrappers == {"Get", "Post", "PostForm", "Head"}

Exported ==
    LibWrappers \cup ClientWrappers \cup
    {"ParseSetCookie", "ParseHTTPVersion", "NewRequest", "FileServerFS",
     "NotFound", "NotFoundHandler", "NewServeMux"}

\* func ParseSetCookie(line string) (*Cookie, error) { return ParseSetCookie(line) }
ParseSetCookie == <<Ins("local", "ParseSetCookie", "same")>>

Body(f) ==
    CASE f \in LibWrappers       -> <<Ins("lib", f, "same")>>
      [] f \in ClientWrappers    -> <<Ins("method", f, "same")>>
      [] f = "ParseSetCookie"    -> ParseSetCookie
      [] f = "ParseHTTPVersion"  -> <<Ins("value", f, "same")>>
      [] f = "NewServeMux"       -> <<Ins("value", f, "same")>>
      [] f = "NotFoundHandler"   -> <<Ins("value", f, "same")>>
      [] f = "NotFound"          -> <<Ins("local", "Error", "other")>>
      [] f = "NewRequest"        -> <<Ins("local", "NewRequestWithContext", "other")>>
      [] f = "FileServerFS"      -> <<Ins("local", "FS", "same"),
                                      Ins("local", "FileServer", "prev")>>

\* The result of net/http's F on arguments a, and of an expression of F.
LibResult(f, a) == [by |-> "net/http", fn |-> f, of |-> a]
OwnResult(f, a) == [by |-> "own", fn |-> f, of |-> a]
NoVal == [by |-> "none", fn |-> "", of |-> <<>>]

\* The goroutine's stack limit, in frames.
MaxStack == 4
\* Longest argument string of a wrapper call.
MaxArgLen == 3

Frame(f, a) == [fn |-> f, args |-> a, pc |-> 1, val |-> NoVal]

top == stack[Len(stack)]
cur == Body(top.fn)[top.pc]

\* The arguments instruction `cur` of the top frame passes on.
Passed ==
    CASE cur.pass = "same"  -> top.args
      [] cur.pass = "prev"  -> <<top.val>>
      [] cur.pass = "other" -> <<"from", top.fn, top.args>>

Running == status = "called" /\ stack /= <<>>
AtIns == Running /\ top.pc <= Len(Body(top.fn))

SetTop(f) == [stack EXCEPT ![Len(stack)] = f]

InitWrap ==
    /\ op \in Exported
    /\ args \in Strs(MaxArgLen)
    /\ status = "called"
    /\ ret = NoRet
    /\ stack = <<Frame(op, args)>>
    /\ libCalls = <<>>
    /\ logged = <<>>
    /\ heap = <<>>

CallLibrary ==
    /\ AtIns /\ cur.kind \in {"lib", "method"}
    /\ libCalls' = Append(libCalls,
           [name |-> cur.name, method |-> cur.kind = "method", args |-> Passed])
    /\ stack' = SetTop([top EXCEPT !.pc = @ + 1, !.val = LibResult(cur.name, Passed)])
    /\ UNCHANGED <<op, args, status, ret, logged, heap>>

EvalValue ==
    /\ AtIns /\ cur.kind = "value"
    /\ stack' = SetTop([top EXCEPT !.pc = @ + 1, !.val = OwnResult(cur.name, Passed)])
    /\ UNCHANGED <<op, args, status, ret, libCalls, logged, heap>>

CallLocal ==
    /\ AtIns /\ cur.kind = "local"
    /\ Len(stack) < MaxStack
    /\ stack' = Append(stack, Frame(cur.name, Passed))
    /\ UNCHANGED <<op, args, status, ret, libCalls, logged, heap>>

\* runtime: goroutine stack exceeds its limit; fatal error: stack overflow.
StackOverflow ==
    /\ AtIns /\ cur.kind = "local"
    /\ Len(stack) >= MaxStack
    /\ status' = "fatal"
    /\ ret' = [by |-> "runtime", fn |-> "stack overflow", of |-> <<>>]
    /\ UNCHANGED <<op, args, stack, libCalls, logged, heap>>

Return ==
    /\ Running /\ top.pc > Len(Body(top.fn))
    /\ IF Len(stack) = 1
       THEN /\ status' = "returned"
            /\ ret' = top.val
            /\ stack' = <<>>
       ELSE LET caller == stack[Len(stack) - 1]
            IN  /\ stack' = [Upto(stack, Len(stack) - 1) EXCEPT ![Len(stack) - 1] =
                                [caller EXCEPT !.pc = @ + 1, !.val = top.val]]
                /\ UNCHANGED <<status, ret>>
    /\ UNCHANGED <<op, args, libCalls, logged, heap>>

NextWrap == CallLibrary \/ EvalValue \/ CallLocal \/ StackOverflow \/ Return

SpecWrap == InitWrap /\ [][NextWrap]_vars

----------------------------------------------------------------------------
(* Claims about the exported functions *)

errBlankCookie           == "http: blank cookie"
errEqualNotFoundInCookie == "http: '=' not found in cookie"
errInvalidCookieName     == "http: invalid cookie name"
errInvalidCookieValue    == "http: invalid cookie value"

\* A returned error.
Err(e) == [by |-> "error", fn |-> e, of |-> <<>>]

\* The error a malformed Set-Cookie line is to be refused with: the text
\* before the first ';' is empty, has no '=', has a name that is no token,
\* or has a value with a byte the cookie-value grammar does not allow.
\* "none" for a line that is to parse.
Malformed(line) ==
    LET seg == Segments(TrimString(line))[1]
    IN  IF seg = <<>> THEN errBlankCookie
        ELSE IF ~HasEqual(seg) THEN errEqualNotFoundInCookie
        ELSE IF ~IsToken(SegName(seg)) THEN errInvalidCookieName
        ELSE IF ~Within(Unquoted(SegRaw(seg)), ValueBytes) THEN errInvalidCookieValue
        ELSE "none"

\* C1 as claimed: for every line, a call of ParseSetCookie ends by
\* returning (a cookie or an error) to its caller.
C1_ParseSetCookieReturns ==
    (op = "ParseSetCookie" /\ status /= "called") => status = "returned"

\* C2 as claimed: a call of ParseSetCookie on a malformed line returns the
\* error of its defect: blank cookie for "", '=' not found for "a",
\* invalid name for "=a", invalid value for a value with a bad byte.
C2_SpecificErrors ==
    (op = "ParseSetCookie" /\ status /= "called" /\ Malformed(args) /= "none")
        => (status = "returned" /\ ret = Err(Malformed(args)))

\* C3 as claimed: every exported function is a pass-through: called with
\* arguments a, it makes exactly one call into net/http, of the function of
\* its own name with the arguments a, and returns what that call returned.
C3_PassThrough ==
    (op \in Exported /\ status /= "called") =>
        /\ status = "returned"
        /\ Len(libCalls) = 1
        /\ libCalls[1].name = op
        /\ libCalls[1].args = args
        /\ ret = LibResult(op, args)

----------------------------------------------------------------------------
(* Two goroutines call the cookie codec at once.  Here op, args, status,
   ret and stack have one entry for each goroutine; stack[p] holds the
   locals of the sanitizeOrWarn call of p. *)

Procs == {1, 2}

\* Longest string handed to a concurrent call.
MaxConcLen == 2

ConcStrs == StrsOver({LA, SEMI}, MaxConcLen)

\* The calls a goroutine makes.
Calls ==
    [fn : {"sanitizeCookieValue"}, v : ConcStrs, quoted : BOOLEAN]
        \cup [fn : {"sanitizeCookiePath"}, v : ConcStrs]
        \cup [fn : {"sanitizeCookieName"}, n : ConcStrs]
        \cup [fn : {"parseCookieValue"}, raw : ConcStrs, allowDoubleQuote : BOOLEAN]
        \cup [fn : {"readCookies"}, h : {[Cookie |-> <<l>>] : l \in ConcStrs}, filter : {<<>>}]
        \cup [fn : {"isCookieNameValid"}, raw : ConcStrs]
        \cup [fn : {"validCookieDomain"}, v : ConcStrs]
        \cup [fn : {"validCookieExpires"},
              t : {DaysBefore(MinExpiresYear) - 1, DaysBefore(MinExpiresYear)}]

\* What the call a returns when it runs from start to end on its own.
CallAlone(a) ==
    CASE a.fn = "sanitizeCookieValue" -> [out |-> sanitizeCookieValue(a.v, a.quoted).out]
      [] a.fn = "sanitizeCookiePath"  -> [out |-> sanitizeCookiePath(a.v).out]
      [] a.fn = "sanitizeCookieName"  -> [out |-> sanitizeCookieName(a.n)]
      [] a.fn = "parseCookieValue"    -> parseCookieValue(a.raw, a.allowDoubleQuote)
      [] a.fn = "readCookies"         -> readCookies(a.h, a.filter)
      [] a.fn = "isCookieNameValid"   -> Verdict(isCookieNameValid(a.raw))
      [] a.fn = "validCookieDomain"   -> Verdict(validCookieDomain(a.v))
      [] a.fn = "validCookieExpires"  -> Verdict(validCookieExpires(a.t))

\* The two functions that go through sanitizeOrWarn, the field name each
\* passes and the predicate each passes.
Warners == {"sanitizeCookieValue", "sanitizeCookiePath"}

fieldOf(fn) == IF fn = "sanitizeCookieValue" THEN "Cookie.Value" ELSE "Cookie.Path"

validFor(fn, b) ==
    IF fn = "sanitizeCookieValue" THEN validCookieValueByte(b) ELSE validCookiePathByte(b)

\* The locals of sanitizeOrWarn: where the call is, the index i of its loop
\* and the address of buf (0: none).
Locals(pc, i, buf) == [pc |-> pc, i |-> i, buf |-> buf]

NewBuf_Reuses(h) == 1

\* make([]byte, 0, len(v)): the address of a buffer nothing else holds.
NewBuf(h) == Len(h) + 1

InitConc ==
    /\ \E c \in [Procs -> Calls] :
          /\ op = [p \in Procs |-> c[p].fn]
          /\ args = c
    /\ status = [p \in Procs |-> "called"]
    /\ ret = [p \in Procs |-> NoRet]
    /\ stack = [p \in Procs |-> Locals("entry", 0, 0)]
    /\ libCalls = <<>>
    /\ logged = <<>>
    /\ heap = <<>>

\* A function that shares nothing runs from its call to its return.
Go_Call(p) ==
    /\ op[p] \notin Warners /\ status[p] = "called"
    /\ ret' = [ret EXCEPT ![p] = CallAlone(args[p])]
    /\ status' = [status EXCEPT ![p] = "returned"]
    /\ UNCHANGED <<op, args, stack, libCalls, logged, heap>>

\* The first loop of sanitizeOrWarn: i stops at the first invalid byte.
Warn_Scan(p) ==
    /\ op[p] \in Warners /\ status[p] = "called"
    /\ LET v   == args[p].v
           bad == {i \in 1..Len(v) : ~validFor(op[p], v[i])}
       IN  stack' = [stack EXCEPT ![p] =
                        IF bad = {} THEN Locals("return", Len(v), 0)
                        ELSE Locals("log", (CHOOSE k \in bad : \A j \in bad : k <= j) - 1, 0)]
    /\ status' = [status EXCEPT ![p] = "running"]
    /\ UNCHANGED <<op, args, ret, libCalls, logged, heap>>

\* log.Printf on v[i]: a line in the standard logger.
Warn_Log(p) ==
    /\ status[p] = "running" /\ stack[p].pc = "log"
    /\ logged' = Append(logged, LogLine(args[p].v[stack[p].i + 1], fieldOf(op[p])))
    /\ libCalls' = Append(libCalls, [proc |-> p, name |-> "log.Printf"])
    /\ stack' = [stack EXCEPT ![p].pc = "make"]
    /\ UNCHANGED <<op, args, status, ret, heap>>

\* buf := make([]byte, 0, len(v))
Warn_Make(p) ==
    /\ status[p] = "running" /\ stack[p].pc = "make"
    /\ LET a == NewBuf(heap)
       IN  /\ heap' = IF a > Len(heap) THEN Append(heap, <<>>)
                      ELSE [heap EXCEPT ![a] = <<>>]
           /\ stack' = [stack EXCEPT ![p] = Locals("copy", 0, a)]
    /\ UNCHANGED <<op, args, status, ret, libCalls, logged>>

\* One turn of the second loop: v[i] goes to buf if it is valid.
Warn_Copy(p) ==
    /\ status[p] = "running" /\ stack[p].pc = "copy"
    /\ stack[p].i < Len(args[p].v)
    /\ LET b == args[p].v[stack[p].i + 1]
       IN  heap' = IF validFor(op[p], b)
                   THEN [heap EXCEPT ![stack[p].buf] = Append(@, b)]
                   ELSE heap
    /\ stack' = [stack EXCEPT ![p].i = @ + 1]
    /\ UNCHANGED <<op, args, status, ret, libCalls, logged>>

\* sanitizeOrWarn returns v or string(buf); sanitizeCookieValue then puts
\* the quotes.
Warn_Return(p) ==
    /\ status[p] = "running"
    /\ \/ stack[p].pc = "return"
       \/ stack[p].pc = "copy" /\ stack[p].i = Len(args[p].v)
    /\ LET v == IF stack[p].buf = 0 THEN args[p].v ELSE heap[stack[p].buf]
       IN  ret' = [ret EXCEPT ![p] =
                      [out |-> IF op[p] = "sanitizeCookiePath" THEN v
                               ELSE IF Len(v) = 0 THEN v
                               ELSE IF ContainsAny(v, {SP, COMMA}) \/ args[p].quoted
                                    THEN <<DQ>> \o v \o <<DQ>>
                               ELSE v]]
    /\ status' = [status EXCEPT ![p] = "returned"]
    /\ stack' = [stack EXCEPT ![p] = Locals("done", 0, 0)]
    /\ UNCHANGED <<op, args, libCalls, logged, heap>>

NextConc ==
    \E p \in Procs :
        \/ Go_Call(p)
        \/ Warn_Scan(p)
        \/ Warn_Log(p)
        \/ Warn_Make(p)
        \/ Warn_Copy(p)
        \/ Warn_Return(p)

SpecConc == InitConc /\ [][NextConc]_vars

\* Every call that has returned has returned what it returns alone.
SameAsAlone == \A p \in Procs : status[p] = "returned" => ret[p] = CallAlone(args[p])

\* No buffer is held by two goroutines.
NoSharedBuffer ==
    \A p, q \in Procs : (p /= q /\ stack[p].buf /= 0) => stack[p].buf /= stack[q].buf

\* The goroutines that have written to the standard logger.
LogWriters == {libCalls[i].proc : i \in 1..Len(libCalls)}

\* C20 as claimed: concurrent calls of the codec return what they return
\* alone, and no call writes to state another call reads or writes: no
\* buffer is shared and no two calls write to the same logger.
C20_NothingShared ==
    /\ SameAsAlone
    /\ NoSharedBuffer
    /\ Cardinality(LogWriters) <= 1

\* C20 as amended: concurrent calls of the codec return what they return
\* alone and share no buffer; the one thing they write in common is the
\* standard logger, where a call of sanitizeCookieValue or sanitizeCookiePath
\* on an input with an invalid byte, and no other call, writes one line: the
\* line it writes alone.
C20_OnlyLoggerShared ==
    /\ SameAsAlone
    /\ NoSharedBuffer
    /\ Len(logged) = Len(libCalls)
    /\ \A i \in 1..Len(libCalls) :
           LET p == libCalls[i].proc
           IN  /\ op[p] \in Warners
               /\ <<logged[i]>> =
                      (IF op[p] = "sanitizeCookieValue"
                       THEN sanitizeCookieValue(args[p].v, args[p].quoted)
                       ELSE sanitizeCookiePath(args[p].v)).log
               /\ \A j \in 1..Len(libCalls) : libCalls[j].proc = p => j = i
    /\ \A p \in Procs :
           (status[p] = "returned" /\ op[p] \in Warners
                /\ \E i \in 1..Len(args[p].v) : ~validFor(op[p], args[p].v[i]))
               => p \in LogWriters

\* C20 witness: two sanitizers ran at once on inputs with an invalid byte,
\* each returned its own filtered bytes and each logged a line.
C20_Witness ==
    /\ \A p \in Procs : status[p] = "returned"
    /\ op = [p \in Procs |-> IF p = 1 THEN "sanitizeCookieValue" ELSE "sanitizeCookiePath"]
    /\ args[1].v = <<LA, SEMI>> /\ ~args[1].quoted /\ args[2].v = <<SEMI, LA>>
    /\ ret[1].out = <<LA>> /\ ret[2].out = <<LA>>
    /\ LogWriters = Procs
    /\ Len(heap) = 2

----------------------------------------------------------------------------
(* cookie.go: readSetCookies, run call by call on the goroutine's stack *)

\* Longest Set-Cookie line drawn.
MaxSetLen == 2

SetLines == StrsOver({LA, EQ, SEMI}, MaxSetLen)

\* Headers: no Set-Cookie key, a key with no line, one line, two lines.
SetHeaders ==
    {<<>>, [Cookie |-> <<<<LA, EQ, LA>>>>]}
        \cup {"Set-Cookie" :> <<>>}
        \cup {"Set-Cookie" :> <<l>> : l \in SetLines}
        \cup {"Set-Cookie" :> <<l1, l2>> : l1 \in SetLines, l2 \in SetLines}

\* The frame of readSetCookies: where it is, the line of the range loop
\* (from 1), the cookies appended and the value it is to return.
SetFrame(pc, i, cookies, val) ==
    [fn |-> "readSetCookies", pc |-> pc, i |-> i, cookies |-> cookies, val |-> val]

\* The frame of ParseSetCookie(line) and the (cookie, err) it is to return.
ParseFrame(line) == [fn |-> "ParseSetCookie", pc |-> "body", line |-> line, val |-> NoVal]

InitSet ==
    /\ op = "readSetCookies"
    /\ args \in [h : SetHeaders]
    /\ status = "called"
    /\ ret = NoRet
    /\ stack = <<SetFrame("count", 0, <<>>, NoVal)>>
    /\ libCalls = <<>>
    /\ logged = <<>>
    /\ heap = <<>>

OnTop(fn, pc) == Running /\ top.fn = fn /\ top.pc = pc

\* cookieCount := len(h["Set-Cookie"]); return []*Cookie{} when it is 0,
\* make the slice otherwise.
Set_Count ==
    /\ OnTop("readSetCookies", "count")
    /\ stack' = SetTop(IF Len(HeaderValues(args.h, "Set-Cookie")) = 0
                       THEN SetFrame("done", 0, <<>>, Slice(FALSE, <<>>))
                       ELSE SetFrame("loop", 1, <<>>, NoVal))
    /\ UNCHANGED <<op, args, status, ret, libCalls, logged, heap>>

\* for _, line := range h["Set-Cookie"]: call ParseSetCookie(line), or
\* return cookies after the last line.
Set_Loop ==
    /\ OnTop("readSetCookies", "loop")
    /\ LET lines == HeaderValues(args.h, "Set-Cookie")
       IN  stack' = IF top.i <= Len(lines)
                    THEN Append(stack, ParseFrame(lines[top.i]))
                    ELSE SetTop(SetFrame("done", top.i, top.cookies,
                                         Slice(FALSE, top.cookies)))
    /\ UNCHANGED <<op, args, status, ret, libCalls, logged, heap>>

\* return ParseSetCookie(line): the function calls itself.
Set_Parse ==
    /\ OnTop("ParseSetCookie", "body")
    /\ Len(stack) < MaxStack
    /\ stack' = Append(stack, ParseFrame(top.line))
    /\ UNCHANGED <<op, args, status, ret, libCalls, logged, heap>>

\* runtime: goroutine stack exceeds its limit; fatal error: stack overflow.
Set_StackOverflow ==
    /\ OnTop("ParseSetCookie", "body")
    /\ Len(stack) >= MaxStack
    /\ status' = "fatal"
    /\ ret' = [by |-> "runtime", fn |-> "stack overflow", of |-> <<>>]
    /\ UNCHANGED <<op, args, stack, libCalls, logged, heap>>

\* A function returns: readSetCookies to its caller; ParseSetCookie to the
\* frame below, where `err == nil` decides on the append.
Set_Return ==
    /\ Running /\ top.pc = "done"
    /\ IF Len(stack) = 1
       THEN /\ status' = "returned"
            /\ ret' = top.val
            /\ stack' = <<>>
       ELSE LET caller == stack[Len(stack) - 1]
                below  == Upto(stack, Len(stack) - 1)
            IN  /\ stack' = [below EXCEPT ![Len(below)] =
                       IF caller.fn = "ParseSetCookie"
                       THEN [caller EXCEPT !.pc = "done", !.val = top.val]
                       ELSE [caller EXCEPT !.i = @ + 1,
                                           !.cookies = IF top.val.err = "nil"
                                                       THEN Append(@, top.val.cookie)
                                                       ELSE @]]
                /\ UNCHANGED <<status, ret>>
    /\ UNCHANGED <<op, args, libCalls, logged, heap>>

NextSet == Set_Count \/ Set_Loop \/ Set_Parse \/ Set_StackOverflow \/ Set_Return

SpecSet == InitSet /\ [][NextSet]_vars

\* The Set-Cookie lines of h that are to parse.
WellFormed(h) ==
    LET lines == HeaderValues(h, "Set-Cookie")
        parses(l) == Malformed(l) = "none"
    IN  SelectSeq(lines, parses)

\* C21 as claimed: for every header, readSetCookies returns: a non-nil
\* sequence with one cookie for each Set-Cookie line that is to parse (none
\* when the header has no Set-Cookie line).
C21_ReadSetCookiesReturns ==
    (op = "readSetCookies" /\ status /= "called") =>
        /\ status = "returned"
        /\ ~ret.nil
        /\ Len(ret.cookies) = Len(WellFormed(args.h))

----------------------------------------------------------------------------
(* request.go: removeZone.  client.go: refererForURL.  response.go:
   fixPragmaCacheControl. *)

PCT   == 37   \* '%'
SLASH == 47   \* '/'
AT    == 64   \* '@'
LBR   == 91   \* '['
RBR   == 93   \* ']'

\* strings.LastIndex(s, sep) for a one-byte sep: index (from 0) of the last
\* b in s, -1 if there is none.
LastIndex(s, b) ==
    IF \E i \in 1..Len(s) : s[i] = b
    THEN (CHOOSE i \in 1..Len(s) : s[i] = b /\ \A j \in (i + 1)..Len(s) : s[j] /= b) - 1
    ELSE -1

removeZone_FirstPercent(host) ==
    IF ~HasPrefix(host, <<LBR>>) THEN host
    ELSE LET i == LastIndex(host, RBR)
         IN  IF i < 0 THEN host
             ELSE LET j == IndexByte(Upto(host, i), PCT)
                  IN  IF j < 0 THEN host
                      ELSE Upto(host, j) \o From(host, i)

removeZone(host) ==
    IF ~HasPrefix(host, <<LBR>>) THEN host
    ELSE LET i == LastIndex(host, RBR)
         IN  IF i < 0 THEN host
             ELSE LET j == LastIndex(Upto(host, i), PCT)
                  IN  IF j < 0 THEN host
                      ELSE Upto(host, j) \o From(host, i)

http  == <<104, 116, 116, 112>>        \* "http"
https == <<104, 116, 116, 112, 115>>   \* "https"

\* A *url.Userinfo: nil, or a user name and a password that may be unset.
NilUser == [nil |-> TRUE, username |-> <<>>, password |-> <<>>, passwordSet |-> FALSE]
Userinfo(username, password, passwordSet) ==
    [nil |-> FALSE, username |-> username, password |-> password,
     passwordSet |-> passwordSet]

\* A url.URL with no opaque part, query or fragment.
URL(scheme, user, host, path) ==
    [Scheme |-> scheme, User |-> user, Host |-> host, Path |-> path]

\* net/url's shouldEscape(c, encodeUserPassword): letters, digits and
\* - _ . ~ are kept, and so are $ & + , ; = ; @ / ? : and every other byte
\* are escaped.
shouldEscape(c) ==
    ~(\/ isLetter(c) \/ isDigit(c)
      \/ c \in {HYPHEN, USC, DOT, 126}
      \/ c \in {36, 38, 43, COMMA, SEMI, EQ})

\* "0123456789ABCDEF"[n]
upperhex(n) == IF n < 10 THEN D0 + n ELSE UA + (n - 10)

\* net/url's escape(s, encodeUserPassword): %XX for each byte to escape.
RECURSIVE escape(_)
escape(str) ==
    IF str = <<>> THEN <<>>
    ELSE (IF shouldEscape(Head(str))
          THEN <<PCT, upperhex(Head(str) \div 16), upperhex(Head(str) % 16)>>
          ELSE <<Head(str)>>) \o escape(Tail(str))

\* (*Userinfo).String(): the escaped user name, then ':' and the escaped
\* password if one is set.
UserString(u) ==
    escape(u.username) \o
        (IF u.passwordSet THEN <<COLON>> \o escape(u.password) ELSE <<>>)

\* (*URL).String() of such a URL whose host and path need no escape:
\* scheme ":" "//" userinfo "@" host path.
URLString(u) ==
    LET scheme == IF u.Scheme /= <<>> THEN u.Scheme \o <<COLON>> ELSE <<>>
        auth   == IF u.Scheme /= <<>> \/ u.Host /= <<>> \/ ~u.User.nil
                  THEN (IF u.Host /= <<>> \/ u.Path /= <<>> \/ ~u.User.nil
                        THEN <<SLASH, SLASH>> ELSE <<>>)
                       \o (IF ~u.User.nil THEN UserString(u.User) \o <<AT>> ELSE <<>>)
                       \o u.Host
                  ELSE <<>>
        slash  == IF u.Path /= <<>> /\ u.Path[1] /= SLASH /\ u.Host /= <<>>
                  THEN <<SLASH>> ELSE <<>>
    IN  scheme \o auth \o slash \o u.Path

\* strings.Index(s, old): where (from 1) old first starts in s, 0 nowhere.
Index(str, old) ==
    LET at == {k \in 1..(Len(str) - Len(old) + 1) : SubSeq(str, k, k + Len(old) - 1) = old}
    IN  IF at = {} THEN 0 ELSE CHOOSE k \in at : \A j \in at : k <= j

\* strings.Replace(s, old, "", 1): s without the first old.
ReplaceFirst(str, old) ==
    LET k == Index(str, old)
    IN  IF k = 0 THEN str
        ELSE SubSeq(str, 1, k - 1) \o SubSeq(str, k + Len(old), Len(str))

refererForURL_ExplicitFirst(lastReq, newReq, explicitRef) ==
    IF explicitRef /= <<>> THEN explicitRef
    ELSE IF lastReq.Scheme = https /\ newReq.Scheme = http THEN <<>>
    ELSE LET referer == URLString(lastReq)
         IN  IF ~lastReq.User.nil
             THEN ReplaceFirst(referer, UserString(lastReq.User) \o <<AT>>)
             ELSE referer

refererForURL_IgnoresExplicit(lastReq, newReq, explicitRef) ==
    IF lastReq.Scheme = https /\ newReq.Scheme = http THEN <<>>
    ELSE LET referer == URLString(lastReq)
         IN  IF ~lastReq.User.nil
             THEN ReplaceFirst(referer, UserString(lastReq.User) \o <<AT>>)
             ELSE referer

refererForURL_KeepsUser(lastReq, newReq, explicitRef) ==
    IF lastReq.Scheme = https /\ newReq.Scheme = http THEN <<>>
    ELSE IF explicitRef /= <<>> THEN explicitRef
    ELSE URLString(lastReq)

refererForURL(lastReq, newReq, explicitRef) ==
    IF lastReq.Scheme = https /\ newReq.Scheme = http THEN <<>>
    ELSE IF explicitRef /= <<>> THEN explicitRef
    ELSE LET referer == URLString(lastReq)
         IN  IF ~lastReq.User.nil
             THEN ReplaceFirst(referer, UserString(lastReq.User) \o <<AT>>)
             ELSE referer

fixPragmaCacheControl_Overwrites(header) ==
    IF "Pragma" \in DOMAIN header /\ Len(header["Pragma"]) > 0
           /\ header["Pragma"][1] = "no-cache"
    THEN ("Cache-Control" :> <<"no-cache">>) @@ header
    ELSE header

\* The Header after the call (the map is changed in place).
fixPragmaCacheControl(header) ==
    IF "Pragma" \in DOMAIN header /\ Len(header["Pragma"]) > 0
           /\ header["Pragma"][1] = "no-cache"
    THEN IF "Cache-Control" \notin DOMAIN header
         THEN ("Cache-Control" :> <<"no-cache">>) @@ header
         ELSE header
    ELSE header

----------------------------------------------------------------------------
(* The three helpers called on drawn inputs *)

\* Longest host drawn byte by byte, longest user name and password, and
\* the most values under a header key.
MaxHostLen == 5
MaxUserLen == 1
MaxVals    == 2

fe80_en0 == <<LBR, 102, 101, 56, 48, COLON, COLON, D1, PCT, 101, 110, D0, RBR,
              COLON, 56, D0, 56, D0>>   \* "[fe80::1%en0]:8080"

Hosts == StrsOver({LBR, RBR, PCT, LA, COLON}, MaxHostLen) \cup {fe80_en0}

\* User names and passwords: a letter, and bytes that have to be escaped.
UserStrs == StrsOver({LA, AT, COLON}, MaxUserLen)

Userinfos ==
    {NilUser}
        \cup {Userinfo(n, <<>>, FALSE) : n \in UserStrs}
        \cup {Userinfo(n, pw, TRUE) : n \in UserStrs, pw \in UserStrs}

URLs ==
    {URL(scheme, user, host, path) :
        scheme \in {http, https, <<>>}, user \in Userinfos,
        host \in {<<>>, <<LA>>}, path \in {<<>>, <<SLASH>>, <<LA>>}}

\* The URL of the new request: only its scheme is read.
NewURLs == {URL(scheme, NilUser, <<LA>>, <<SLASH>>) : scheme \in {http, https}}

\* The Referer the caller has set: none, "http://a/" and "http://a:a@a/".
ExplicitRefs ==
    {<<>>,
     http \o <<COLON, SLASH, SLASH, LA, SLASH>>,
     http \o <<COLON, SLASH, SLASH, LA, COLON, LA, AT, LA, SLASH>>}

HeaderKeys == {"Pragma", "Cache-Control", "Expires"}

ValueLists == UNION {[1..k -> {"no-cache", "No-Cache"}] : k \in 0..MaxVals}

PragmaHeaders == UNION {[keys -> ValueLists] : keys \in SUBSET HeaderKeys}

InitReq ==
    /\ \/ /\ op = "removeZone" /\ args \in [host : Hosts]
       \/ /\ op = "refererForURL"
          /\ args \in [lastReq : URLs, newReq : NewURLs, explicitRef : ExplicitRefs]
       \/ /\ op = "fixPragmaCacheControl" /\ args \in [header : PragmaHeaders]
    /\ status = "called"
    /\ ret = NoRet
    /\ stack = <<>>
    /\ libCalls = <<>>
    /\ logged = <<>>
    /\ heap = <<>>

Call_removeZone ==
    /\ op = "removeZone" /\ status = "called"
    /\ ret' = [out |-> removeZone(args.host)]
    /\ status' = "returned"
    /\ UNCHANGED <<op, args, stack, libCalls, logged, heap>>

Call_refererForURL ==
    /\ op = "refererForURL" /\ status = "called"
    /\ ret' = [out |-> refererForURL(args.lastReq, args.newReq, args.explicitRef)]
    /\ status' = "returned"
    /\ UNCHANGED <<op, args, stack, libCalls, logged, heap>>

Call_fixPragmaCacheControl ==
    /\ op = "fixPragmaCacheControl" /\ status = "called"
    /\ ret' = [header |-> fixPragmaCacheControl(args.header)]
    /\ status' = "returned"
    /\ UNCHANGED <<op, args, stack, libCalls, logged, heap>>

NextReq == Call_removeZone \/ Call_refererForURL \/ Call_fixPragmaCacheControl

SpecReq == InitReq /\ [][NextReq]_vars

\* C22: for a host that starts with '[' and has a '%' before its last ']',
\* removeZone returns the host without the text from the last such '%' up
\* to, and not including, the last ']'; any other host it returns as it is.
C22_ZoneRemoved ==
    Did("removeZone") =>
        LET host     == args.host
            brackets == {i \in 1..Len(host) : host[i] = RBR}
            last     == CHOOSE i \in brackets : \A k \in brackets : k <= i
            percents == {j \in 1..Len(host) : host[j] = PCT /\ j < last}
            zone     == CHOOSE j \in percents : \A k \in percents : k <= j
        IN  IF host /= <<>> /\ host[1] = LBR /\ brackets /= {} /\ percents /= {}
            THEN ret.out = SubSeq(host, 1, zone - 1) \o SubSeq(host, last, Len(host))
            ELSE ret.out = host

\* C22 witness: "[fe80::1%en0]:8080" became "[fe80::1]:8080".
C22_Witness ==
    /\ Did("removeZone") /\ args.host = fe80_en0
    /\ ret.out = <<LBR, 102, 101, 56, 48, COLON, COLON, D1, RBR, COLON, 56, D0, 56, D0>>

Downgrade == args.lastReq.Scheme = https /\ args.newReq.Scheme = http

\* C23: refererForURL returns the empty string whenever the last request's
\* scheme is https and the new request's scheme is http.
C23_NoRefererOnDowngrade ==
    (Did("refererForURL") /\ Downgrade) => ret.out = <<>>

\* C23 witness: from https to http the referer was empty although the
\* caller had set one.
C23_Witness ==
    Did("refererForURL") /\ Downgrade /\ args.explicitRef /= <<>> /\ ret.out = <<>>

\* C24 as claimed: a referer that was set explicitly is the result, for
\* every last and new request URL.
C24_ExplicitAlwaysUsed ==
    (Did("refererForURL") /\ args.explicitRef /= <<>>) => ret.out = args.explicitRef

\* C24 as amended: a referer that was set explicitly is the result for
\* every last and new request URL, except from https to http, where the
\* result is the empty string.
C24_ExplicitUsedUnlessDowngrade ==
    (Did("refererForURL") /\ args.explicitRef /= <<>>) =>
        ret.out = IF Downgrade THEN <<>> ELSE args.explicitRef

\* C24 witness: from https to https the explicit referer came back, the
\* last URL having a user.
C24_Witness ==
    /\ Did("refererForURL") /\ args.explicitRef /= <<>>
    /\ args.lastReq.Scheme = https /\ args.newReq.Scheme = https
    /\ ~args.lastReq.User.nil
    /\ ret.out = args.explicitRef

\* The authority of a URL string (the text after "//" up to the next '/')
\* has a userinfo part.
HasUserinfo(ref) ==
    LET k    == Index(ref, <<SLASH, SLASH>>)
        rest == SubSeq(ref, k + 2, Len(ref))
        end  == IndexByte(rest, SLASH)
    IN  k /= 0 /\ AT \in Range(IF end < 0 THEN rest ELSE Upto(rest, end))

\* C25 as claimed: every non-empty referer returned has no userinfo part
\* (no user name, no password), whatever the last URL, the new URL and the
\* explicit referer.
C25_NeverUserinfo ==
    (Did("refererForURL") /\ ret.out /= <<>>) => ~HasUserinfo(ret.out)

\* C25 as amended: a non-empty referer made from the last request's URL (no
\* explicit referer) has no userinfo part: it is that URL's string without
\* its user name, password and '@'; an explicit referer is returned as it
\* was given, userinfo included.
C25_NoUserinfoUnlessExplicit ==
    Did("refererForURL") =>
        /\ (ret.out /= <<>> /\ args.explicitRef = <<>>) =>
               /\ ~HasUserinfo(ret.out)
               /\ AT \notin Range(ret.out)
               /\ \E k \in 0..Len(ret.out) :
                      URLString(args.lastReq) =
                          Upto(ret.out, k)
                              \o (IF args.lastReq.User.nil THEN <<>>
                                  ELSE UserString(args.lastReq.User) \o <<AT>>)
                              \o From(ret.out, k)
        /\ (args.explicitRef /= <<>> /\ ~Downgrade) => ret.out = args.explicitRef

\* C25 witness: the last URL http://a:a@a/ gave the referer http://a/.
C25_Witness ==
    /\ Did("refererForURL") /\ args.explicitRef = <<>>
    /\ args.lastReq = URL(http, Userinfo(<<LA>>, <<LA>>, TRUE), <<LA>>, <<SLASH>>)
    /\ ret.out = http \o <<COLON, SLASH, SLASH, LA, SLASH>>

\* C26: fixPragmaCacheControl sets Cache-Control to the one value "no-cache"
\* exactly when the first Pragma value is "no-cache" and the header has no
\* Cache-Control key; otherwise the header is unchanged, and every other
\* key is unchanged in all cases.
C26_PragmaToCacheControl ==
    Did("fixPragmaCacheControl") =>
        LET h     == args.header
            after == ret.header
            sets  == /\ "Pragma" \in DOMAIN h /\ h["Pragma"] /= <<>>
                     /\ Head(h["Pragma"]) = "no-cache"
                     /\ "Cache-Control" \notin DOMAIN h
        IN  /\ \A k \in DOMAIN h : k \in DOMAIN after /\ after[k] = h[k]
            /\ DOMAIN after = IF sets THEN DOMAIN h \cup {"Cache-Control"} ELSE DOMAIN h
            /\ sets => after["Cache-Control"] = <<"no-cache">>

\* C26 witness: Pragma: no-cache with an Expires key and no Cache-Control
\* got Cache-Control: no-cache.
C26_Witness ==
    /\ Did("fixPragmaCacheControl")
    /\ DOMAIN args.header = {"Pragma", "Expires"}
    /\ args.header["Pragma"] = <<"no-cache", "No-Cache">>
    /\ ret.header["Cache-Control"] = <<"no-cache">>
    /\ ret.header["Expires"] = args.header["Expires"]

----------------------------------------------------------------------------
(* client.go: defaultCheckRedirect, alone and under the redirect loop of
   the client behind Get *)

\* The number of earlier requests from which a redirect is refused.
MaxRedirects == 10

\* The most redirects a server answers in a row, and the longest via of a
\* direct call.
MaxChain == 12

stoppedAfter10 == "stopped after 10 redirects"

defaultCheckRedirect_OneMore(req, via) ==
    IF Len(via) > MaxRedirects THEN stoppedAfter10 ELSE "nil"

\* The error returned, "nil" for none.
defaultCheckRedirect(req, via) ==
    IF Len(via) >= MaxRedirects THEN stoppedAfter10 ELSE "nil"

\* The URLs a server redirects to.
Targets == {1, 2}

\* The locals of the client's loop: where it is, the requests sent so far,
\* the request to send next and the checks made, each with the length of
\* via and the error returned.
DoFrame(pc, reqs, req, checks) ==
    [fn |-> "do", pc |-> pc, reqs |-> reqs, req |-> req, checks |-> checks]

InitRedirect ==
    /\ \/ /\ op = "Get" /\ args \in [url : Targets]
          /\ stack = <<DoFrame("send", <<>>, args.url, <<>>)>>
       \/ /\ op = "defaultCheckRedirect"
          /\ args \in [req : Targets, via : {Rep(1, n) : n \in 0..MaxChain}]
          /\ stack = <<>>
    /\ status = "called"
    /\ ret = NoRet
    /\ libCalls = <<>>
    /\ logged = <<>>
    /\ heap = <<>>

Call_defaultCheckRedirect ==
    /\ op = "defaultCheckRedirect" /\ status = "called"
    /\ ret' = [err |-> defaultCheckRedirect(args.req, args.via)]
    /\ status' = "returned"
    /\ UNCHANGED <<op, args, stack, libCalls, logged, heap>>

\* The request is sent and the server answers with a redirect to loc.
Send_Redirected ==
    /\ op = "Get" /\ status = "called" /\ top.pc = "send"
    /\ Len(top.reqs) < MaxChain
    /\ \E loc \in Targets :
           stack' = <<DoFrame("check", Append(top.reqs, top.req), loc, top.checks)>>
    /\ UNCHANGED <<op, args, status, ret, libCalls, logged, heap>>

\* The request is sent and the server answers with a final response.
Send_Final ==
    /\ op = "Get" /\ status = "called" /\ top.pc = "send"
    /\ stack' = <<DoFrame("done", Append(top.reqs, top.req), top.req, top.checks)>>
    /\ ret' = [err |-> "nil"]
    /\ status' = "returned"
    /\ UNCHANGED <<op, args, libCalls, logged, heap>>

\* The client asks defaultCheckRedirect(req, reqs): nil sends the next
\* request, an error ends the chain.
Check_Redirect ==
    /\ op = "Get" /\ status = "called" /\ top.pc = "check"
    /\ LET err    == defaultCheckRedirect(top.req, top.reqs)
           checks == Append(top.checks, [n |-> Len(top.reqs), err |-> err])
       IN  IF err = "nil"
           THEN /\ stack' = <<DoFrame("send", top.reqs, top.req, checks)>>
                /\ UNCHANGED <<status, ret>>
           ELSE /\ stack' = <<DoFrame("done", top.reqs, top.req, checks)>>
                /\ ret' = [err |-> err]
                /\ status' = "returned"
    /\ UNCHANGED <<op, args, libCalls, logged, heap>>

NextRedirect ==
    \/ Call_defaultCheckRedirect
    \/ Send_Redirected
    \/ Send_Final
    \/ Check_Redirect

SpecRedirect == InitRedirect /\ [][NextRedirect]_vars

\* The checks of the chain so far, and those that approved a redirect.
Checks == IF op = "Get" THEN top.checks ELSE <<>>
Approved == {i \in 1..Len(Checks) : Checks[i].err = "nil"}

\* C27: defaultCheckRedirect returns nil while via holds fewer than 10
\* requests and the error "stopped after 10 redirects" from 10 on; along a
\* redirect chain every check has that result, the chain ends at the first
\* error, and no chain has more than 10 redirects approved.
C27_AtMostTenRedirects ==
    /\ Did("defaultCheckRedirect") =>
           ret.err = IF Len(args.via) < 10 THEN "nil" ELSE "stopped after 10 redirects"
    /\ \A i \in 1..Len(Checks) :
           /\ Checks[i].err = IF Checks[i].n < 10 THEN "nil"
                              ELSE "stopped after 10 redirects"
           /\ Checks[i].err /= "nil" =>
                  (i = Len(Checks) /\ status = "returned" /\ ret.err = Checks[i].err)
    /\ Cardinality(Approved) <= 10

\* C27 witness: a chain was stopped by the error at its tenth request in
\* via, after nine approved redirects.
C27_Witness ==
    /\ op = "Get" /\ status = "returned"
    /\ ret.err = "stopped after 10 redirects"
    /\ Len(top.reqs) = 10
    /\ Cardinality(Approved) = 9

====
